---------------------------- MODULE Spec2Model ----------------------------
(***************************************************************************)
(* A model of pysotropy's driver of the interactive isotropy engine        *)
(* (src/pysotropy/core.py): the line reader, the Shows/Values mirrors and  *)
(* the IsotropySession protocol.                                           *)
(*                                                                         *)
(* Text is a sequence of tokens.  A token is a word, one whitespace        *)
(* character (" ", "\t", "\n") or, for the names whose letter case the     *)
(* code changes, a single letter.  Concatenation of text is \o.            *)
(***************************************************************************)
EXTENDS Naturals, Sequences, FiniteSets, TLC

VARIABLES
    rdRaw,      \* line reader alone: the raw line stdout.readline() returns
    rdRes,      \* line reader alone: what read_iso_line made of it
    psIn,       \* parser alone: the lines (the field) given to the parser
    psOut,      \* parser alone: what the parser made of them
    other,      \* a second session of the same working directory
    iso_process, \* the engine's standard output, where a specification follows it
    pc,         \* position of the driver's code
    idx,        \* loop counter of the position
    op,         \* the current (or last) top-level call, with its arguments
    outcome,    \* "running", "ok", or the exception the call ended with
    vals,       \* self.values._vals: insertion-ordered <<key, value>> pairs
    shows,      \* self.shows._shows
    setting,    \* self.setting
    argValues,  \* __init__'s values argument, as items() yields it
    argShows,   \* __init__'s shows argument, in iteration order
    newVals,    \* the Values object under construction
    newShows,   \* the Shows object under construction
    hasSession, \* an IsotropySession object exists (its __init__ returned once)
    alive,      \* the engine process is running
    files,      \* the file names of the working directory
    written,    \* what the call has written to the engine since it started
    log,        \* the I/O events of the call (of the loop iteration)
    lines,      \* getDisplayData's lines
    result,     \* what getDisplayData returned last
    lastLine,   \* this_line of the loop that read last
    lastSig,    \* the failure signature of the line the last step consumed
    argSetting  \* __init__'s setting argument

vars == <<rdRaw, rdRes, psIn, psOut, other, iso_process, pc, idx, op, outcome, vals, shows, setting, argValues,
          argShows, newVals, newShows, hasSession, alive, files, written, log,
          lines, result, lastLine, lastSig, argSetting>>

-----------------------------------------------------------------------------
(* Text *)

Whitespace == {" ", "\t", "\n"}

\* words separated by one token sep: "a b c"
RECURSIVE Phrase(_, _)
Phrase(words, sep) ==
    IF Len(words) = 0 THEN <<>>
    ELSE IF Len(words) = 1 THEN <<words[1]>>
    ELSE <<words[1], sep>> \o Phrase(Tail(words), sep)

\* str.rstrip('\n')
RECURSIVE RStripNewline(_)
RStripNewline(s) ==
    IF Len(s) > 0 /\ s[Len(s)] = "\n"
    THEN RStripNewline(SubSeq(s, 1, Len(s) - 1))
    ELSE s

\* str.upper() of one letter of the names the model uses
UpperTok(c) ==
    CASE c = "a" -> "A"
      [] c = "b" -> "B"
      [] OTHER -> c

\* str.upper()
Upper(s) == [i \in DOMAIN s |-> UpperTok(s[i])]

\* str.lower() of the words the engine's failure messages are made of
LowerTok(w) ==
    CASE w \in {"Program", "PROGRAM"} -> "program"
      [] w = "HAS" -> "has"
      [] w = "BOMBED" -> "bombed"
      [] w = "Basis" -> "basis"
      [] w = "Not" -> "not"
      [] OTHER -> w

Lower(s) == [i \in DOMAIN s |-> LowerTok(s[i])]

-----------------------------------------------------------------------------
(* read_iso_line *)

\* One element of a pattern against one token: "\\s" is the class \s.
PatTok(p, t) == IF p = "\\s" THEN t \in Whitespace ELSE p = t

\* re.match(".*" + pat + ".*", line): pat occurs somewhere in the line.
\* (Tokens are whole words: no word of a line contains a pattern's word.)
ReMatchAnywhere(pat, line) ==
    \E i \in 1..(Len(line) + 1) :
        /\ i + Len(pat) - 1 <= Len(line)
        /\ \A j \in 1..Len(pat) : PatTok(pat[j], line[i + j - 1])

BombedWords == <<"program", "has", "bombed">>
BasisWords == <<"Basis", "vectors", "are", "not", "a", "right-handed", "set">>
SubgroupWords == <<"not", "all", "elements", "of", "the", "subgroup", "are",
                   "elements", "of", "parent", "group">>

BombedPattern == Phrase(BombedWords, "\\s")
BasisPattern == Phrase(BasisWords, "\\s")
SubgroupPattern == Phrase(SubgroupWords, "\\s")

\* The checks with the second one first
ClassifyLineBasisFirst(this_line) ==
    IF ReMatchAnywhere(BasisPattern, this_line) THEN "IsotropyBasisException"
    ELSE IF ReMatchAnywhere(BombedPattern, this_line) THEN "IsotropyBombedException"
    ELSE IF ReMatchAnywhere(SubgroupPattern, this_line)
         THEN "IsotropySubgroupException"
    ELSE "ok"

\* The three checks in the order of the code
ClassifyLine(this_line) ==
    IF ReMatchAnywhere(BombedPattern, this_line) THEN "IsotropyBombedException"
    ELSE IF ReMatchAnywhere(BasisPattern, this_line) THEN "IsotropyBasisException"
    ELSE IF ReMatchAnywhere(SubgroupPattern, this_line)
         THEN "IsotropySubgroupException"
    ELSE "ok"

\* read_iso_line on the raw line readline() returned: the exception raised
\* ("ok": none) and the line returned
read_iso_line(raw) ==
    LET this_line == RStripNewline(raw)
    IN  [exc |-> ClassifyLine(this_line), line |-> this_line]

EngineErrors == {"IsotropyBombedException", "IsotropyBasisException",
                 "IsotropySubgroupException"}


-----------------------------------------------------------------------------
(* Events of the driver's I/O *)

Ev(k, site, text) == [k |-> k, site |-> site, text |-> text]
ReadEv(site) == Ev("read", site, <<>>)
WriteEv(text) == Ev("write", "stdin", text)
FlushEv == Ev("flush", "stdin", <<>>)

-----------------------------------------------------------------------------
(* IsotropySession.sendCommand *)

\* The prompt read of sendCommand
PromptRead(raw) == read_iso_line(raw)

\* a sendCommand that writes whatever the prompt line says
sendCommandUnchecked(command, raw) ==
    LET r == PromptRead(raw)
        bytes == command \o <<"\n">>
    IN  [exc |-> IF r.exc # "ok" THEN r.exc
                 ELSE IF ~alive THEN "BrokenPipeError" ELSE "ok",
         ev |-> <<ReadEv("prompt"), WriteEv(bytes), FlushEv>>,
         wr |-> IF alive THEN <<bytes>> ELSE <<>>]

\* sendCommand(command) when readline() returns raw: the exception it ends
\* with ("ok": none), its events and what reached the engine's stdin.
\* Writing to a process that has exited raises BrokenPipeError at the flush.
sendCommand(command, raw) ==
    LET r == PromptRead(raw)
        bytes == command \o <<"\n">>
    IN  IF r.exc # "ok"
        THEN [exc |-> r.exc, ev |-> <<ReadEv("prompt")>>, wr |-> <<>>]
        ELSE IF ~alive
        THEN [exc |-> "BrokenPipeError",
              ev |-> <<ReadEv("prompt"), WriteEv(bytes)>>, wr |-> <<>>]
        ELSE [exc |-> "ok",
              ev |-> <<ReadEv("prompt"), WriteEv(bytes), FlushEv>>,
              wr |-> <<bytes>>]

\* the signature of the line a sendCommand consumed
PromptSig(raw) == ClassifyLine(RStripNewline(raw))

-----------------------------------------------------------------------------
(* Shows and Values *)

ShowCmd(item) == <<"SHOW", " ">> \o item
CancelShowCmd(item) == <<"CANCEL", " ", "SHOW", " ">> \o item
CancelShowAllCmd == <<"CANCEL", " ", "SHOW", " ", "ALL">>
ValueCmd(key, value) == <<"VALUE", " ">> \o key \o <<" ">> \o value
CancelValueCmd(key) == <<"CANCEL", " ", "VALUE", " ">> \o key
CancelValueAllCmd == <<"CANCEL", " ", "VALUE", " ", "ALL">>

\* dict operations on insertion-ordered <<key, value>> pairs
HasKey(d, k) == \E i \in DOMAIN d : d[i][1] = k
GetItem(d, k) == d[CHOOSE i \in DOMAIN d : d[i][1] = k][2]
PutItem(d, k, v) ==
    IF HasKey(d, k)
    THEN [i \in DOMAIN d |-> IF d[i][1] = k THEN <<k, v>> ELSE d[i]]
    ELSE Append(d, <<k, v>>)
DelItem(d, k) == LET Keep(p) == p[1] # k IN SelectSeq(d, Keep)

\* What a mirror operation leaves: the exception it ends with, the mirror,
\* the events, what was written, and whether it consumed a line.
MirrorResult(exc, m, s) ==
    [exc |-> exc, m |-> m, ev |-> s.ev, wr |-> s.wr, read |-> TRUE]
NoCommand(exc, m) ==
    [exc |-> exc, m |-> m, ev |-> <<>>, wr |-> <<>>, read |-> FALSE]

\* an add that sends SHOW whether the item is in the set or not
Shows_addAlways(s, item, raw) ==
    LET it == Upper(item)
        c == sendCommand(ShowCmd(it), raw)
    IN  MirrorResult(c.exc, IF c.exc = "ok" THEN s \cup {it} ELSE s, c)

\* Shows.add
Shows_add(s, item, raw) ==
    LET it == Upper(item)
    IN  IF it \notin s
        THEN LET c == sendCommand(ShowCmd(it), raw)
             IN  MirrorResult(c.exc, IF c.exc = "ok" THEN s \cup {it} ELSE s, c)
        ELSE NoCommand("ok", s)

\* Shows.discard: set.remove raises KeyError on a missing item, which the
\* handler for ValueError does not catch
Shows_discard(s, item, raw) ==
    LET it == Upper(item)
    IN  IF it \notin s
        THEN NoCommand("KeyError", s)
        ELSE LET c == sendCommand(CancelShowCmd(it), raw)
             IN  MirrorResult(c.exc, s \ {it}, c)

\* Shows.clearAll
Shows_clearAll(s, raw) ==
    LET c == sendCommand(CancelShowAllCmd, raw)
    IN  MirrorResult(c.exc, IF c.exc = "ok" THEN {} ELSE s, c)

\* __setitem__ comparing the key as it was given
Values_setitemAsGiven(d, key, value, raw) ==
    IF ~HasKey(d, key) \/ GetItem(d, key) # value
    THEN LET c == sendCommand(ValueCmd(Upper(key), value), raw)
         IN  MirrorResult(c.exc,
                          IF c.exc = "ok" THEN PutItem(d, key, value) ELSE d, c)
    ELSE NoCommand("ok", d)

\* Values.__setitem__
Values_setitem(d, key, value, raw) ==
    LET k == Upper(key)
    IN  IF ~HasKey(d, k) \/ GetItem(d, k) # value
        THEN LET c == sendCommand(ValueCmd(k, value), raw)
             IN  MirrorResult(c.exc,
                              IF c.exc = "ok" THEN PutItem(d, k, value) ELSE d, c)
        ELSE NoCommand("ok", d)

\* __delitem__ looking the key up before it sends anything
Values_delitemLookupFirst(d, key, raw) ==
    LET k == Upper(key)
    IN  IF ~HasKey(d, k) THEN NoCommand("KeyError", d)
        ELSE LET c == sendCommand(CancelValueCmd(k), raw)
             IN  MirrorResult(c.exc, IF c.exc = "ok" THEN DelItem(d, k) ELSE d, c)

\* Values.__delitem__: the command is sent before the key is looked up
Values_delitem(d, key, raw) ==
    LET k == Upper(key)
        c == sendCommand(CancelValueCmd(k), raw)
    IN  IF c.exc # "ok" THEN MirrorResult(c.exc, d, c)
        ELSE IF ~HasKey(d, k) THEN MirrorResult("KeyError", d, c)
        ELSE MirrorResult("ok", DelItem(d, k), c)

\* a clearAll that sends the command and keeps the dictionary
Values_clearAllKeepsEntries(d, raw) ==
    LET c == sendCommand(CancelValueAllCmd, raw)
    IN  MirrorResult(c.exc, d, c)

\* Values.clearAll
Values_clearAll(d, raw) ==
    LET c == sendCommand(CancelValueAllCmd, raw)
    IN  MirrorResult(c.exc, IF c.exc = "ok" THEN <<>> ELSE d, c)


-----------------------------------------------------------------------------
(* Bounds and the inputs drawn from them *)

MaxInit == 2         \* initial values and shows a session is started with
MaxBlock == 2        \* lines one getDisplayData collects
MaxDialogs == 1      \* sub-dialogs one getDisplayData goes through

RawKeys == {<<"a">>, <<"A">>, <<"b">>}
ValueTexts == {<<"1">>, <<"2">>}
Displays == {<<"IRREP">>}

BannerLine ==
    <<"Current setting is International (new ed.) with conventional basis vectors.">>
PromptLine == <<"*">>
RequestedLine ==
    Phrase(<<"You", "have", "requested", "information", "about", "irrep">>, " ")
CoupledLine ==
    Phrase(<<"Data", "base", "for", "these", "coupled", "subgroups", "..">>, " ")
DataLines == {<<"GM1+">>, <<"GM2-">>}
SessionLines ==
    {BannerLine, PromptLine, <<>>, RequestedLine, CoupledLine,
     Phrase(BombedWords, " "), Phrase(BasisWords, " "),
     Phrase(SubgroupWords, " ")} \cup DataLines

\* what readline() may return: a line with its newline, or nothing (the
\* stream is at its end, or gave nothing in time)
SessionRaws == {l \o <<"\n">> : l \in SessionLines} \cup {<<>>}

SeqsUpTo(S, n) == UNION {[1..m -> S] : m \in 0..n}
\* a values dictionary (its keys differ) and a shows list
InitArgs ==
    {a \in SeqsUpTo(RawKeys \X ValueTexts, MaxInit) \X SeqsUpTo(RawKeys, MaxInit) :
        /\ Len(a[1]) + Len(a[2]) <= MaxInit
        /\ \A i, j \in DOMAIN a[1] : i # j => a[1][i][1] # a[1][j][1]}

\* the setting argument: None, one string, or a list of strings
NoneArg == [type |-> "None", v |-> <<>>]
StrArg(t) == [type |-> "str", v |-> <<t>>]
ListArg(l) == [type |-> "list", v |-> l]
SettingArgs == {NoneArg, StrArg(<<"MAGNETIC">>), ListArg(<<>>),
                ListArg(<<<<"MAGNETIC">>, <<"INTERNATIONAL">>>>)}

Orderings(S) ==
    {f \in [1..Cardinality(S) -> S] : \A i, j \in DOMAIN f : i # j => f[i] # f[j]}

NotesFile == <<"notes", ".txt">>
ScratchFile == <<"irrep", ".iso">>

-----------------------------------------------------------------------------
(* IsotropySession.__init__ *)

ScreenCmd == <<"SCREEN", " ", "999">>
PageCmd == <<"PAGE", " ", "999">>
SettingCmd(s) == <<"SETTING", " ">> \o s
QuitCmd == <<"QUIT">>
DisplayCmd(display) == <<"DISPLAY", " ">> \o display

\* self.setting of lines 182-188
SettingOf(arg) ==
    LET falsy == \/ arg.type = "None"
                 \/ arg.type = "str" /\ arg.v[1] = <<>>
                 \/ arg.type = "list" /\ arg.v = <<>>
    IN  IF falsy THEN << <<"INTERNATIONAL">> >> ELSE arg.v

\* An exception leaves the call: the caller keeps the session if it has one.
Raise(exc) ==
    /\ outcome' = exc
    /\ pc' = IF hasSession THEN "idle" ELSE "none"
    /\ idx' = 0

\* a read of the banner loop that takes the line as readline() gives it
BannerReadUnclassified(raw) == [exc |-> "ok", line |-> RStripNewline(raw)]

\* The read of the banner loop
BannerRead(raw) == read_iso_line(raw)

\* IsotropySession(values, shows, setting=setting), up to the start of the
\* process (lines 156-164).  A program starts a session when it has none: at
\* its start, or after it has left the with block of the one before.
Construct(values, shs, st) ==
    /\ pc = "none"
    /\ op.name \in {"none", "close"}
    /\ op' = [name |-> "init", a |-> <<>>, b |-> <<>>]
    /\ outcome' = "running"
    /\ argValues' = values /\ argShows' = shs /\ argSetting' = st
    /\ alive' = TRUE
    /\ pc' = "banner" /\ idx' = 0
    /\ written' = <<>>
    /\ log' = <<Ev("spawn", "iso", <<>>)>>
    /\ lastSig' = "none" /\ lastLine' = <<>>
    /\ newVals' = <<>> /\ newShows' = {}
    /\ vals' = <<>> /\ shows' = {} /\ setting' = <<>>
    /\ lines' = <<>> /\ result' = <<>>
    /\ UNCHANGED <<hasSession, files, rdRaw, rdRes, psIn, psOut, other>>

\* the arguments and the objects under construction are dropped when
\* __init__ is left
InitLocals(nv, ns) ==
    IF outcome' = "running"
    THEN /\ newVals' = nv /\ newShows' = ns
         /\ UNCHANGED <<argValues, argShows, argSetting>>
    ELSE /\ newVals' = <<>> /\ newShows' = {}
         /\ argValues' = <<>> /\ argShows' = <<>> /\ argSetting' = NoneArg

\* what no step of __init__ changes
InitFrame == UNCHANGED <<op, alive, files, lines, result, rdRaw, rdRes, psIn, psOut, other>>

\* one pass of the loop of lines 168-175
InitBanner(raw) ==
    /\ pc = "banner"
    /\ LET r == BannerRead(raw)
       IN  /\ lastSig' = ClassifyLine(RStripNewline(raw))
           /\ log' = <<ReadEv("banner")>>
           /\ IF r.exc # "ok"
              THEN Raise(r.exc) /\ lastLine' = <<>>
              ELSE /\ lastLine' = r.line
                   /\ pc' = IF r.line = BannerLine THEN "screen" ELSE "banner"
                   /\ UNCHANGED <<outcome, idx>>
    /\ InitLocals(newVals, newShows)
    /\ UNCHANGED <<vals, shows, setting, hasSession, written>>
    /\ InitFrame

\* a sendCommand of __init__, after which the code is at next
InitSend(c, raw, next, i) ==
    /\ lastSig' = PromptSig(raw)
    /\ log' = log \o c.ev
    /\ written' = written \o c.wr
    /\ lastLine' = <<>>
    /\ IF c.exc # "ok"
       THEN Raise(c.exc)
       ELSE pc' = next /\ idx' = i /\ UNCHANGED outcome

\* lines 177-178
InitScreen(raw) ==
    /\ pc = "screen"
    /\ InitSend(sendCommand(ScreenCmd, raw), raw, "page", 0)
    /\ InitLocals(newVals, newShows)
    /\ UNCHANGED <<vals, shows, setting, hasSession>>
    /\ InitFrame

\* lines 180-188
InitPage(raw) ==
    /\ pc = "page"
    /\ LET c == sendCommand(PageCmd, raw)
       IN  /\ InitSend(c, raw, "setting", 1)
           /\ setting' = IF c.exc = "ok" THEN SettingOf(argSetting) ELSE setting
    /\ InitLocals(newVals, newShows)
    /\ UNCHANGED <<vals, shows, hasSession>>
    /\ InitFrame

\* one pass of the loop of lines 189-190
InitSetting(raw) ==
    /\ pc = "setting"
    /\ idx <= Len(setting)
    /\ IF idx = Len(setting)
       THEN InitSend(sendCommand(SettingCmd(setting[idx]), raw), raw, "values", 1)
       ELSE InitSend(sendCommand(SettingCmd(setting[idx]), raw), raw,
                     "setting", idx + 1)
    /\ InitLocals(newVals, newShows)
    /\ UNCHANGED <<vals, shows, setting, hasSession>>
    /\ InitFrame

\* Values.__init__ (lines 85-92) and the assignment of line 191
InitValues(raw) ==
    /\ pc = "values"
    /\ IF idx > Len(argValues)
       THEN /\ vals' = newVals
            /\ pc' = "shows" /\ idx' = 1
            /\ lastSig' = "none"
            /\ UNCHANGED <<outcome, log, written, lastLine>>
            /\ InitLocals(<<>>, newShows)
       ELSE LET k == Upper(argValues[idx][1])
                r == Values_setitem(newVals, k, argValues[idx][2], raw)
            IN  /\ lastSig' = IF r.read THEN PromptSig(raw) ELSE "none"
                /\ log' = log \o r.ev
                /\ written' = written \o r.wr
                /\ UNCHANGED <<vals, lastLine>>
                /\ IF r.exc # "ok"
                   THEN Raise(r.exc)
                   ELSE pc' = "values" /\ idx' = idx + 1 /\ UNCHANGED outcome
                /\ InitLocals(r.m, newShows)
    /\ UNCHANGED <<shows, setting, hasSession>>
    /\ InitFrame

\* Shows.__init__ (lines 38-44) and the assignment of line 192, after which
\* __init__ returns
InitShows(raw) ==
    /\ pc = "shows"
    /\ IF idx > Len(argShows)
       THEN /\ shows' = newShows
            /\ hasSession' = TRUE
            /\ pc' = "idle" /\ idx' = 0
            /\ outcome' = "ok"
            /\ lastSig' = "none"
            /\ UNCHANGED <<log, written, lastLine>>
            /\ InitLocals(<<>>, {})
       ELSE LET item == Upper(argShows[idx])
                r == Shows_add(newShows, item, raw)
            IN  /\ lastSig' = IF r.read THEN PromptSig(raw) ELSE "none"
                /\ log' = log \o r.ev
                /\ written' = written \o r.wr
                /\ UNCHANGED <<shows, hasSession, lastLine>>
                /\ IF r.exc # "ok"
                   THEN Raise(r.exc)
                   ELSE pc' = "shows" /\ idx' = idx + 1 /\ UNCHANGED outcome
                /\ InitLocals(newVals, r.m)
    /\ UNCHANGED <<vals, setting>>
    /\ InitFrame

-----------------------------------------------------------------------------
(* The mirror's operations, called on a session *)

MirrorCall(name, a, b, r, raw) ==
    /\ pc = "idle"
    /\ op' = [name |-> name, a |-> a, b |-> b]
    /\ outcome' = r.exc
    /\ written' = r.wr
    /\ log' = r.ev
    /\ lastSig' = IF r.read THEN PromptSig(raw) ELSE "none"
    /\ lastLine' = <<>> /\ result' = <<>>
    /\ UNCHANGED <<pc, idx, setting, argValues, argShows, argSetting, newVals,
                   newShows, hasSession, alive, files, lines, rdRaw, rdRes, psIn, psOut, other>>

\* isos.values[key] = value
CallSet(key, value, raw) ==
    LET r == Values_setitem(vals, key, value, raw)
    IN  MirrorCall("set", key, value, r, raw) /\ vals' = r.m /\ UNCHANGED shows

\* del isos.values[key]
CallDelete(key, raw) ==
    LET r == Values_delitem(vals, key, raw)
    IN  MirrorCall("delete", key, <<>>, r, raw) /\ vals' = r.m /\ UNCHANGED shows

\* isos.values.clearAll()
CallClearValues(raw) ==
    LET r == Values_clearAll(vals, raw)
    IN  MirrorCall("clearValues", <<>>, <<>>, r, raw)
        /\ vals' = r.m /\ UNCHANGED shows

\* isos.shows.add(item)
CallAdd(item, raw) ==
    LET r == Shows_add(shows, item, raw)
    IN  MirrorCall("add", item, <<>>, r, raw) /\ shows' = r.m /\ UNCHANGED vals

\* isos.shows.discard(item)
CallDiscard(item, raw) ==
    LET r == Shows_discard(shows, item, raw)
    IN  MirrorCall("discard", item, <<>>, r, raw)
        /\ shows' = r.m /\ UNCHANGED vals

\* isos.shows.clearAll()
CallClearShows(raw) ==
    LET r == Shows_clearAll(shows, raw)
    IN  MirrorCall("clearShows", <<>>, <<>>, r, raw)
        /\ shows' = r.m /\ UNCHANGED vals

-----------------------------------------------------------------------------
(* IsotropySession.getDisplayData *)

RequestedReads == 4   \* the reads of lines 240-243
CoupledReads == 2     \* the reads of lines 256-257
\* a scan of one line more
ScanLimitLonger == 10 + 1
ScanLimit == 10       \* range(10) of lines 246 and 260

RequestedPattern ==
    Phrase(<<"You", "have", "requested", "information", "about">>, " ") \o <<" ">>
CoupledPattern ==
    Phrase(<<"Data", "base", "for", "these", "coupled", "subgroups">>, " ")
        \o <<" ">>

\* the prompt alone
TerminatorsPromptOnly == {PromptLine}

\* the lines that end the loop of getDisplayData (lines 237, 248, 262)
Terminators == {PromptLine, <<>>}

\* sub-dialogs the call has answered
Answered == Len(SelectSeq(written, LAMBDA w : w = <<"\n">>))

\* the reads of getDisplayData
DisplayRead(raw) == read_iso_line(raw)

\* line 229; attempt tells the calls of a caller that calls twice apart
GetDisplayDataBy(display, raw, attempt) ==
    /\ pc = "idle"
    /\ LET c == sendCommand(DisplayCmd(display), raw)
       IN  /\ op' = [name |-> "display", a |-> display, b |-> attempt]
           /\ lastSig' = PromptSig(raw)
           /\ log' = c.ev
           /\ written' = c.wr
           /\ IF c.exc # "ok"
              THEN /\ outcome' = c.exc
                   /\ UNCHANGED <<pc, idx>>
              ELSE /\ outcome' = "running"
                   /\ pc' = "main" /\ idx' = 0
    /\ lines' = <<>> /\ result' = <<>> /\ lastLine' = <<>>
    /\ UNCHANGED <<vals, shows, setting, argValues, argShows, argSetting,
                   newVals, newShows, hasSession, alive, files, rdRaw, rdRes, psIn, psOut, other>>

\* isos.getDisplayData(display, raw=True)
CallGetDisplayData(display, raw) == GetDisplayDataBy(display, raw, <<>>)

\* what a step inside getDisplayData leaves alone
DisplayFrame ==
    UNCHANGED <<op, vals, shows, setting, argValues, argShows, argSetting,
                newVals, newShows, hasSession, alive, files, rdRaw, rdRes, psIn, psOut, other>>

\* both sub-dialogs dropping the same number of lines
DialogReadsAlike(this_line) ==
    IF ReMatchAnywhere(RequestedPattern, this_line)
       \/ ReMatchAnywhere(CoupledPattern, this_line)
    THEN CoupledReads
    ELSE 0

\* the lines a sub-dialog drops before it is answered: those of the branch
\* the line takes (lines 239-243, 255-257), 0 when it opens no sub-dialog
DialogReads(this_line) ==
    IF ReMatchAnywhere(RequestedPattern, this_line) THEN RequestedReads
    ELSE IF ReMatchAnywhere(CoupledPattern, this_line) THEN CoupledReads
    ELSE 0

\* one pass of the loop of lines 235-270, up to its branch
GdMain(raw) ==
    /\ pc = "main"
    /\ LET r == DisplayRead(raw)
       IN  /\ lastSig' = ClassifyLine(RStripNewline(raw))
           /\ IF r.exc # "ok"
              THEN /\ Raise(r.exc)
                   /\ log' = <<ReadEv("main")>>
                   /\ lines' = <<>>
                   /\ lastLine' = <<>>
                   /\ UNCHANGED result
              ELSE /\ lastLine' = r.line
                   /\ log' = <<Ev("read", "main", r.line)>>
                   /\ IF r.line \in Terminators
                      THEN /\ pc' = "idle" /\ idx' = 0
                           /\ outcome' = "ok"
                           /\ result' = lines
                           /\ lines' = <<>>
                      ELSE IF DialogReads(r.line) > 0
                      THEN /\ Answered < MaxDialogs
                           /\ pc' = "dialog" /\ idx' = DialogReads(r.line)
                           /\ UNCHANGED <<outcome, lines, result>>
                      ELSE /\ Len(lines) < MaxBlock
                           /\ lines' = Append(lines, r.line)
                           /\ UNCHANGED <<pc, idx, outcome, result>>
    /\ UNCHANGED written
    /\ DisplayFrame

\* one of the reads of lines 240-243 or 256-257: the line is dropped
GdDialog(raw) ==
    /\ pc = "dialog"
    /\ LET r == DisplayRead(raw)
       IN  /\ lastSig' = ClassifyLine(RStripNewline(raw))
           /\ log' = Append(log, ReadEv("dialog"))
           /\ IF r.exc # "ok"
              THEN Raise(r.exc)
              ELSE /\ pc' = IF idx = 1 THEN "answer" ELSE "dialog"
                   /\ idx' = idx - 1
                   /\ UNCHANGED outcome
    /\ lines' = IF outcome' = "running" THEN lines ELSE <<>>
    /\ lastLine' = IF outcome' = "running" THEN lastLine ELSE <<>>
    /\ UNCHANGED <<written, result>>
    /\ DisplayFrame

\* self.sendCommand("") of lines 244 and 258
GdAnswer(raw) ==
    /\ pc = "answer"
    /\ LET c == sendCommand(<<>>, raw)
       IN  /\ lastSig' = PromptSig(raw)
           /\ log' = log \o c.ev
           /\ written' = written \o c.wr
           /\ IF c.exc # "ok"
              THEN Raise(c.exc)
              ELSE pc' = "ack" /\ UNCHANGED <<outcome, idx>>
    /\ lines' = IF outcome' = "running" THEN lines ELSE <<>>
    /\ lastLine' = IF outcome' = "running" THEN lastLine ELSE <<>>
    /\ UNCHANGED result
    /\ DisplayFrame

\* the read of lines 245 and 259
GdAck(raw) ==
    /\ pc = "ack"
    /\ LET r == DisplayRead(raw)
       IN  /\ lastSig' = ClassifyLine(RStripNewline(raw))
           /\ log' = Append(log, ReadEv("ack"))
           /\ IF r.exc # "ok"
              THEN Raise(r.exc)
              ELSE pc' = "scan" /\ idx' = 0 /\ UNCHANGED outcome
    /\ lines' = IF outcome' = "running" THEN lines ELSE <<>>
    /\ lastLine' = IF outcome' = "running" THEN lastLine ELSE <<>>
    /\ UNCHANGED <<written, result>>
    /\ DisplayFrame

\* one pass of the loop of lines 246-254 or 260-268, idx being its i and
\* lastLine its possibly_blank
GdScan(raw) ==
    /\ pc = "scan"
    /\ LET r == DisplayRead(raw)
       IN  /\ lastSig' = ClassifyLine(RStripNewline(raw))
           /\ log' = Append(log, ReadEv("scan"))
           /\ IF r.exc # "ok"
              THEN Raise(r.exc) /\ lines' = <<>> /\ lastLine' = <<>>
              ELSE /\ lastLine' = r.line
                   /\ IF r.line \notin Terminators
                      THEN /\ Len(lines) < MaxBlock
                           /\ lines' = Append(lines, r.line)
                           /\ pc' = "main" /\ idx' = 0
                           /\ UNCHANGED outcome
                      ELSE /\ UNCHANGED <<lines, outcome>>
                           /\ IF idx = ScanLimit - 1
                              THEN pc' = "main" /\ idx' = 0
                              ELSE pc' = "scan" /\ idx' = idx + 1
    /\ UNCHANGED <<written, result>>
    /\ DisplayFrame

-----------------------------------------------------------------------------
(* IsotropySession.restart_session and __exit__ *)

\* a glob that matches every file of the directory
GlobAll(fs) == fs

\* glob("*.iso"): the names that end in .iso and do not start with a dot
GlobIso(fs) ==
    {f \in fs : Len(f) > 1 /\ f[Len(f)] = ".iso" /\ f[1] \notin {".iso", ".txt"}}

\* the os.remove calls of lines 208-209, in glob's order
RemoveEvents(fs) ==
    LET order == CHOOSE o \in Orderings(fs) : TRUE
    IN  [i \in 1..Cardinality(fs) |-> Ev("remove", "cwd", order[i])]

\* lines 201-211, up to the start of the new process; order is the order in
\* which the old Shows object is iterated
CallRestart(raw, order) ==
    /\ pc = "idle"
    /\ order \in Orderings(shows)
    /\ LET c == sendCommand(QuitCmd, raw)
       IN  /\ op' = [name |-> "restart", a |-> <<>>, b |-> <<>>]
           /\ lastSig' = PromptSig(raw)
           /\ IF c.exc \notin {"ok", "BrokenPipeError"}
              THEN /\ outcome' = c.exc
                   /\ log' = c.ev
                   /\ UNCHANGED <<pc, alive, files, argValues, argShows,
                                  argSetting>>
              ELSE /\ outcome' = "running"
                   /\ log' = c.ev \o <<Ev("kill", "iso", <<>>)>>
                                  \o RemoveEvents(GlobIso(files))
                                  \o <<Ev("spawn", "iso", <<>>)>>
                   /\ alive' = TRUE
                   /\ files' = files \ GlobIso(files)
                   /\ argValues' = vals
                   /\ argShows' = order
                   /\ argSetting' = ListArg(setting)
                   /\ pc' = "banner"
    /\ written' = <<>>
    /\ idx' = 0 /\ lines' = <<>> /\ result' = <<>> /\ lastLine' = <<>>
    /\ newVals' = <<>> /\ newShows' = {}
    /\ UNCHANGED <<vals, shows, setting, hasSession, rdRaw, rdRes, psIn, psOut, other>>

\* __exit__ (line 198): the with block is left, whatever sendCommand does,
\* and with it the session object
CallClose(raw) ==
    /\ pc = "idle"
    /\ LET c == sendCommand(QuitCmd, raw)
       IN  /\ op' = [name |-> "close", a |-> <<>>, b |-> <<>>]
           /\ lastSig' = PromptSig(raw)
           /\ outcome' = c.exc
           /\ log' = c.ev
           /\ written' = c.wr
    /\ pc' = "none" /\ idx' = 0
    /\ hasSession' = FALSE
    /\ vals' = <<>> /\ shows' = {} /\ setting' = <<>>
    /\ lines' = <<>> /\ result' = <<>> /\ lastLine' = <<>>
    /\ UNCHANGED <<argValues, argShows, argSetting, newVals, newShows, alive,
                   files, rdRaw, rdRes, psIn, psOut, other>>

-----------------------------------------------------------------------------
(* getPossibleIrrepComboOPs (lines 559-575) *)

ParentKey == <<"a">>      \* 'parent'
IrrepKey == <<"b">>       \* 'irrep'
ComboShow == <<"a">>      \* one of the shows of line 563
ComboDisplay == <<"ISOTROPY", " ", "COUPLED">>
FirstTry == <<"try">>     \* the call of line 570
SecondTry == <<"retry">>  \* the call of line 575

\* combinations(irreps, n), each as the text of ' '.join(combo)
Combos == << <<"1">>, <<"2">> >>

\* the combination the loop is at: the one values['irrep'] was set to
ComboAt ==
    IF HasKey(vals, Upper(IrrepKey))
    THEN CHOOSE i \in DOMAIN Combos : Combos[i] = GetItem(vals, Upper(IrrepKey))
    ELSE 0

\* a handler for any of the engine's failures
HandledAll(exc) == exc \in EngineErrors

\* except IsotropyBombedException (line 571)
Handled(exc) == exc = "IsotropyBombedException"

\* the last call has returned
Returned == pc = "idle" /\ outcome = "ok"

\* lines 560-565
ComboOpen == Construct(<< <<ParentKey, <<"1">>>> >>, <<ComboShow>>, NoneArg)

\* line 568, for the first combination or the next one
ComboSet(raw) ==
    /\ Returned
    /\ \/ op.name = "init"
       \/ op.name = "display"
    /\ ComboAt < Len(Combos)
    /\ CallSet(IrrepKey, Combos[ComboAt + 1], raw)

\* line 570
ComboTry(raw) ==
    /\ Returned
    /\ op.name = "set"
    /\ GetDisplayDataBy(ComboDisplay, raw, FirstTry)

\* line 574, in the handler of line 571
ComboRestart(raw, order) ==
    /\ pc = "idle"
    /\ op.name = "display" /\ op.b = FirstTry
    /\ Handled(outcome)
    /\ CallRestart(raw, order)

\* line 575
ComboRetry(raw) ==
    /\ Returned
    /\ op.name = "restart"
    /\ GetDisplayDataBy(ComboDisplay, raw, SecondTry)

\* the with block is left: after the last combination, or by an exception
\* that nothing handles
ComboExit(raw) ==
    /\ pc = "idle"
    /\ \/ Returned /\ op.name = "display" /\ ComboAt = Len(Combos)
       \/ /\ outcome \notin {"ok", "running"}
          /\ ~(op.name = "display" /\ op.b = FirstTry /\ Handled(outcome))
    /\ CallClose(raw)

-----------------------------------------------------------------------------
(* get_amps_direction (pysodistort.py, lines 333-361), called without a    *)
(* session, for a response of the engine that has no rows                  *)

AmpsDisplay == <<"ISOTROPY">>
AmpsShows == {<<"a">>, <<"b">>}     \* {'direction', 'subgroup'}

\* line 336
AmpsOpen == Construct(<<>>, <<>>, NoneArg)

\* line 339: parent, then irrep
AmpsSetValues(raw) ==
    /\ Returned
    /\ \/ op.name = "init" /\ CallSet(ParentKey, <<"1">>, raw)
       \/ op.name = "set" /\ op.a = ParentKey /\ CallSet(IrrepKey, <<"1">>, raw)

\* line 340: the two shows, in the order the set gives them
AmpsAddShows(raw) ==
    /\ Returned
    /\ \/ op.name = "set" /\ op.a = IrrepKey
       \/ op.name = "add" /\ Cardinality(shows) = 1
    /\ \E item \in AmpsShows : Upper(item) \notin shows /\ CallAdd(item, raw)

\* line 345
AmpsGetDisplayData(raw) ==
    /\ Returned
    /\ op.name = "add" /\ Cardinality(shows) = 2
    /\ CallGetDisplayData(AmpsDisplay, raw)

\* lines 346 and 358
AmpsClearShows(raw) ==
    /\ Returned
    /\ op.name \in {"display", "clearShows"}
    /\ CallClearShows(raw)

\* line 359
AmpsClearValues(raw) ==
    /\ Returned
    /\ op.name = "clearShows"
    /\ CallClearValues(raw)

\* lines 360-361
AmpsClose(raw) ==
    /\ Returned
    /\ op.name = "clearValues"
    /\ CallClose(raw)

\* an exception of a call leaves the function: nothing catches it, and
\* there is no with block
AmpsRaise ==
    /\ pc = "idle"
    /\ outcome \notin {"ok", "running"}
    /\ op' = [name |-> "raise", a |-> <<>>, b |-> <<>>]
    /\ pc' = "none"
    /\ UNCHANGED <<rdRaw, rdRes, psIn, psOut, other, idx, outcome, vals, shows, setting, argValues,
                   argShows, argSetting, newVals, newShows, hasSession, alive,
                   files, written, log, lines, result, lastLine, lastSig>>

-----------------------------------------------------------------------------
(* The engine *)

\* the engine process ends by itself
EngineExits ==
    /\ alive
    /\ alive' = FALSE
    /\ UNCHANGED <<rdRaw, rdRes, psIn, psOut, other, pc, idx, op, outcome, vals, shows, setting,
                   argValues, argShows, argSetting, newVals, newShows,
                   hasSession, files, written, log, lines, result, lastLine,
                   lastSig>>

\* the engine writes a data base file into the working directory, which it
\* does while it answers the requests of a started session
EngineCreatesFile ==
    /\ alive
    /\ pc = "idle"
    /\ ScratchFile \notin files
    /\ files' = files \cup {ScratchFile}
    /\ UNCHANGED <<rdRaw, rdRes, psIn, psOut, other, pc, idx, op, outcome, vals, shows, setting,
                   argValues, argShows, argSetting, newVals, newShows,
                   hasSession, alive, written, log, lines, result, lastLine,
                   lastSig>>

-----------------------------------------------------------------------------
(* A second session of the same Python process.  Its engine is started  *)
(* like the first (lines 156-164), in os.getcwd(), and so writes its     *)
(* files into the same directory.                                         *)

OtherScratchFile == <<"subgroup", ".iso">>

NoOther == [live |-> FALSE, files |-> {}]

OtherFrame ==
    UNCHANGED <<rdRaw, rdRes, psIn, psOut, pc, idx, op, outcome, vals, shows,
                setting, argValues, argShows, argSetting, newVals, newShows,
                hasSession, alive, written, log, lines, result, lastLine,
                lastSig>>

\* the second session is opened
OtherOpens ==
    /\ ~other.live
    /\ other' = [live |-> TRUE, files |-> {}]
    /\ UNCHANGED files
    /\ OtherFrame

\* its engine writes a file
OtherEngineCreatesFile ==
    /\ other.live
    /\ OtherScratchFile \notin files
    /\ files' = files \cup {OtherScratchFile}
    /\ other' = [other EXCEPT !.files = @ \cup {OtherScratchFile}]
    /\ OtherFrame

\* it is closed: __exit__ removes nothing
OtherCloses ==
    /\ other.live
    /\ other' = NoOther
    /\ UNCHANGED files
    /\ OtherFrame

-----------------------------------------------------------------------------
(* The session *)

\* no process whose output is followed
NoOutput == [stdout |-> <<>>, todo |-> <<>>, received |-> 0]

NoRes == [exc |-> "none", line |-> <<>>]

SessionInit ==
    /\ pc = "none" /\ idx = 0
    /\ op = [name |-> "none", a |-> <<>>, b |-> <<>>]
    /\ outcome = "none"
    /\ vals = <<>> /\ shows = {} /\ setting = <<>>
    /\ argValues = <<>> /\ argShows = <<>> /\ argSetting = NoneArg
    /\ newVals = <<>> /\ newShows = {}
    /\ hasSession = FALSE
    /\ alive = FALSE
    /\ files = {NotesFile}
    /\ written = <<>> /\ log = <<>>
    /\ lines = <<>> /\ result = <<>>
    /\ lastLine = <<>> /\ lastSig = "none"
    /\ other = NoOther
    /\ iso_process = NoOutput

\* the parser alone has nothing to do
NoParse == psIn = <<>> /\ psOut = <<>>

Init == SessionInit /\ rdRaw = <<>> /\ rdRes = NoRes /\ NoParse

-----------------------------------------------------------------------------
(* The parser of a block of lines (lines 290-369).  A line is here the    *)
(* sequence of its characters.                                            *)

Min(a, b) == IF a <= b THEN a ELSE b

\* what str.rstrip, str.strip and str.split take for white space
IsSpace(c) == c \in {" ", "\t", "\n"}

\* s[i:j] for 0 <= i and 0 <= j
Slice(s, i, j) == SubSeq(s, i + 1, Min(j, Len(s)))

RECURSIVE RStrip(_)
RStrip(s) ==
    IF s # <<>> /\ IsSpace(s[Len(s)]) THEN RStrip(SubSeq(s, 1, Len(s) - 1))
    ELSE s

RECURSIVE LStrip(_)
LStrip(s) == IF s # <<>> /\ IsSpace(s[1]) THEN LStrip(Tail(s)) ELSE s

Strip(s) == LStrip(RStrip(s))

\* the number of columns zip(*list_of_lines) yields: the length of the
\* shortest line
ZipWidth(list_of_lines) ==
    IF list_of_lines = <<>> THEN 0
    ELSE CHOOSE w \in {Len(list_of_lines[l]) : l \in DOMAIN list_of_lines} :
             \A l \in DOMAIN list_of_lines : w <= Len(list_of_lines[l])

\* transitions[i] (line 347): every line has a space in column i
Transition(list_of_lines, i) ==
    \A l \in DOMAIN list_of_lines : list_of_lines[l][i + 1] = " "

\* a boundary whether the header has a space there or not
detect_column_indexes_any_header(list_of_lines) ==
    LET w == ZipWidth(list_of_lines)
        found(i) == /\ ~Transition(list_of_lines, i)
                    /\ Transition(list_of_lines, i - 1)
    IN  <<0>> \o SelectSeq([k \in 1..(w - 1) |-> k], found)

\* detect_column_indexes (lines 345-362); offsets count from 0
detect_column_indexes(list_of_lines) ==
    LET w == ZipWidth(list_of_lines)
        found(i) == /\ ~Transition(list_of_lines, i)
                    /\ Transition(list_of_lines, i - 1)
                    /\ list_of_lines[1][i + 1] # " "
    IN  <<0>> \o SelectSeq([k \in 1..(w - 1) |-> k], found)

\* split_line_by_indexes (lines 364-369)
split_line_by_indexes(indexes, line) ==
    [k \in DOMAIN indexes |->
        RStrip(Slice(line, indexes[k],
                     IF k < Len(indexes) THEN indexes[k + 1] ELSE Len(line)))]

-----------------------------------------------------------------------------
(* Blocks of two columns, for the column boundaries alone *)

MaxRows == 1         \* rows under the header
MaxGap == 2          \* blank columns between the two columns of a block

Spaces(n) == [k \in 1..n |-> " "]

\* a field: its text, and how far right of its column's left edge it is put
LabelTexts == {<<"a">>, <<"a", " ", "b">>}
Fields(texts) == [text : texts, indent : {0, 1}]
HeaderFields == Fields(LabelTexts)
RowFields == Fields(LabelTexts) \cup [text : {<<>>}, indent : {0}]

\* header and rows, the gap, and whether a line goes on with a space after
\* its last field
Layouts ==
    UNION {[cells : {<<h>> \o r : h \in HeaderFields \X HeaderFields,
                                 r \in [1..n -> RowFields \X RowFields]},
            gap : 1..MaxGap,
            pad : [1..(n + 1) -> BOOLEAN]] : n \in 1..MaxRows}

Extent(f) == IF f.text = <<>> THEN 0 ELSE f.indent + Len(f.text)

Max(S) == CHOOSE m \in S : \A x \in S : x <= m

\* the left edge of the second column
Base2(lay) ==
    Max({Extent(lay.cells[l][1]) : l \in DOMAIN lay.cells}) + lay.gap

\* a line as the engine prints it
Render(lay, l) ==
    LET f == lay.cells[l]
        left == IF f[1].text = <<>> THEN <<>>
                ELSE Spaces(f[1].indent) \o f[1].text
    IN  IF f[2].text = <<>> /\ ~lay.pad[l] THEN left
        ELSE left \o Spaces(Base2(lay) - Len(left))
                  \o Spaces(f[2].indent) \o f[2].text
                  \o (IF lay.pad[l] THEN <<" ">> ELSE <<>>)

Block(lay) == [l \in DOMAIN lay.cells |-> Render(lay, l)]

InitColumns == SessionInit /\ rdRaw = <<>> /\ rdRes = NoRes
                   /\ psIn \in Layouts /\ psOut = <<>>

ParserFrame ==
    UNCHANGED <<iso_process, rdRaw, rdRes, psIn, other, pc, idx, op, outcome, vals, shows,
                setting, argValues, argShows, argSetting, newVals, newShows,
                hasSession, alive, files, written, log, lines, result,
                lastLine, lastSig>>

\* lines 291-292 on the block
SplitBlock ==
    /\ psOut = <<>>
    /\ LET b == Block(psIn)
           indexes == detect_column_indexes(b)
       IN  psOut' = <<indexes,
                      [l \in DOMAIN b |-> split_line_by_indexes(indexes, b[l])]>>
    /\ ParserFrame

NextColumns == SplitBlock

SpecColumns == InitColumns /\ [][NextColumns]_vars

-----------------------------------------------------------------------------
(* detect_multirows_and_split (lines 329-343).  A record is a dictionary, *)
(* its items in the order of insertion; a value is a string or a list of  *)
(* strings.                                                               *)

MaxLines == 3        \* rows under the header of a split block

StrValue(s) == [list |-> FALSE, items |-> <<s>>]
ListValue(ss) == [list |-> TRUE, items |-> ss]

\* a list of the token alone
PromoteDropping(old, prop) == ListValue(<<prop>>)

\* line 341: [result[key], prop]
Promote(old, prop) == ListValue(<<old.items[1], prop>>)

\* the last record of result_list with an item put: result is that record
PutLast(list, key, value) ==
    [list EXCEPT ![Len(list)] = PutItem(@, key, value)]

\* lines 335-341 for one field of a row
MergeField(st, key, prop, starts) ==
    IF st.exc # "ok" THEN st
    ELSE IF starts
    THEN [st EXCEPT !.list = PutLast(@, key, StrValue(prop))]
    ELSE IF prop = <<>> THEN st
    ELSE IF ~st.bound THEN [st EXCEPT !.exc = "UnboundLocalError"]
    ELSE LET record == st.list[Len(st.list)]
         IN  IF ~HasKey(record, key) THEN [st EXCEPT !.exc = "KeyError"]
             ELSE LET old == GetItem(record, key)
                  IN  [st EXCEPT !.list =
                          PutLast(@, key,
                                  IF old.list
                                  THEN ListValue(Append(old.items, prop))
                                  ELSE Promote(old, prop))]

\* the loop of line 335 from field j on; a row longer than the header
\* fails at split_lines[0][j]
RECURSIVE MergeRow(_, _, _, _)
MergeRow(st, header, row, j) ==
    IF j > Len(row) \/ st.exc # "ok" THEN st
    ELSE IF j > Len(header) /\ (row[1] # <<>> \/ row[j] # <<>>)
    THEN [st EXCEPT !.exc = "IndexError"]
    ELSE IF j > Len(header) THEN MergeRow(st, header, row, j + 1)
    ELSE MergeRow(MergeField(st, header[j], row[j], row[1] # <<>>),
                  header, row, j + 1)

\* the loop of line 331 from row i on
RECURSIVE MergeRows(_, _, _)
MergeRows(st, split_lines, i) ==
    IF i > Len(split_lines) \/ st.exc # "ok" THEN st
    ELSE LET row == split_lines[i]
             opened == IF row[1] # <<>>
                       THEN [st EXCEPT !.list = Append(@, <<>>),
                                       !.bound = TRUE]
                       ELSE st
         IN  MergeRows(MergeRow(opened, split_lines[1], row, 1),
                       split_lines, i + 1)

\* detect_multirows_and_split: the exception raised ("ok": none) and
\* result_list
detect_multirows_and_split(split_lines) ==
    LET st == MergeRows([exc |-> "ok", list |-> <<>>, bound |-> FALSE],
                        split_lines, 2)
    IN  [exc |-> st.exc, list |-> IF st.exc = "ok" THEN st.list ELSE <<>>]

\* split blocks of two fields a line: the header, and rows whose fields are
\* empty or one character
Headers == {<< <<"F">>, <<"G">> >>, << <<"F">>, <<"F">> >>}
Tokens == {<<>>, <<"x">>, <<"y">>}
SplitBlocks ==
    {<<h>> \o r : h \in Headers, r \in SeqsUpTo(Tokens \X Tokens, MaxLines)}

InitMerge == SessionInit /\ rdRaw = <<>> /\ rdRes = NoRes
                 /\ psIn \in SplitBlocks /\ psOut = <<>>

\* line 295 on the split block
MergeBlock ==
    /\ psOut = <<>>
    /\ psOut' = <<detect_multirows_and_split(psIn)>>
    /\ ParserFrame

NextMerge == MergeBlock

SpecMerge == InitMerge /\ [][NextMerge]_vars

-----------------------------------------------------------------------------
(* detect_data_form_and_convert (lines 299-327).  What it returns, a      *)
(* string or a list of such values, is written as one sequence: a string  *)
(* between StrOpen and StrClose, the elements of a list between ListOpen  *)
(* and ListClose.                                                         *)

MaxChars == 4        \* characters of a field drawn from the alphabet

StrOpen == "<str>"
StrClose == "</str>"
ListOpen == "<list>"
ListClose == "</list>"

StrOf(s) == <<StrOpen>> \o s \o <<StrClose>>

RECURSIVE Concat(_)
Concat(ss) == IF ss = <<>> THEN <<>> ELSE Head(ss) \o Concat(Tail(ss))

ListOf(es) == <<ListOpen>> \o Concat(es) \o <<ListClose>>

\* surrounded_by_paren_list[0] of an empty list
IndexError == <<"<IndexError>">>

\* the lookahead [^()]*\) at an offset: the first parenthesis from there on
\* is a closing one
BeforeClose(s, from) ==
    \E j \in from..Len(s) :
       /\ s[j] = ")"
       /\ \A k \in from..(j - 1) : s[k] \notin {"(", ")"}

\* the end of \s* from an offset on
RECURSIVE SkipSpace(_, _)
SkipSpace(s, i) ==
    IF i <= Len(s) /\ IsSpace(s[i]) THEN SkipSpace(s, i + 1) ELSE i

\* re.split(r'[d]\s*(?![^()]*\))', s), from offset i on, the piece at hand
\* having started at offset start
RECURSIVE ReSplitFrom(_, _, _, _)
ReSplitFrom(s, d, i, start) ==
    IF i > Len(s) THEN <<SubSeq(s, start, Len(s))>>
    ELSE IF s[i] = d /\ ~BeforeClose(s, SkipSpace(s, i + 1))
    THEN LET j == SkipSpace(s, i + 1)
         IN  <<SubSeq(s, start, i - 1)>> \o ReSplitFrom(s, d, j, j)
    ELSE ReSplitFrom(s, d, i + 1, start)

ReSplit(s, d) == ReSplitFrom(s, d, 1, 1)

\* re.match(r'^\s*\(.*\)$', s), for a text of one line
InParens(s) ==
    LET p == SkipSpace(s, 1)
    IN  p < Len(s) /\ s[p] = "(" /\ s[Len(s)] = ")"

\* re.findall(r'\((.+?)\)', s) from an offset on
RECURSIVE FindGroups(_, _)
FindGroups(s, i) ==
    IF i > Len(s) THEN <<>>
    ELSE IF s[i] = "(" /\ \E j \in (i + 2)..Len(s) : s[j] = ")"
    THEN LET j == CHOOSE j \in (i + 2)..Len(s) :
                      /\ s[j] = ")"
                      /\ \A k \in (i + 2)..(j - 1) : s[k] # ")"
         IN  <<SubSeq(s, i + 1, j - 1)>> \o FindGroups(s, j + 1)
    ELSE FindGroups(s, i + 1)

\* str.split()
RECURSIVE Words(_)
Words(s) ==
    LET t == LStrip(s)
    IN  IF t = <<>> THEN <<>>
        ELSE LET n == CHOOSE n \in 1..Len(t) :
                          /\ \A k \in 1..n : ~IsSpace(t[k])
                          /\ n = Len(t) \/ IsSpace(t[n + 1])
             IN  <<SubSeq(t, 1, n)>> \o Words(SubSeq(t, n + 1, Len(t)))

RECURSIVE detect_data_form_and_convert(_)

\* lines 301-302: a list is converted element by element
ConvertAll(props) ==
    LET each == [k \in DOMAIN props |-> detect_data_form_and_convert(props[k])]
    IN  IF \E k \in DOMAIN each : each[k] = IndexError THEN IndexError
        ELSE ListOf(each)

\* lines 313-327: a string that neither split has cut
Undelimited(prop) ==
    LET surrounded_by_paren_list == FindGroups(prop, 1)
        space_split_list == Words(prop)
    IN  IF InParens(prop)
        THEN IF Len(surrounded_by_paren_list) > 1
             THEN ConvertAll(surrounded_by_paren_list)
             ELSE IF surrounded_by_paren_list = <<>> THEN IndexError
             ELSE detect_data_form_and_convert(surrounded_by_paren_list[1])
        ELSE IF Len(space_split_list) > 1 THEN ConvertAll(space_split_list)
        ELSE StrOf(Strip(prop))

\* lines 303-327: a string
detect_data_form_and_convert(prop) ==
    LET pipe_split_list == ReSplit(prop, "|")
        comma_split_list == ReSplit(prop, ",")
    IN  IF Len(pipe_split_list) > 1 THEN ConvertAll(pipe_split_list)
        ELSE IF Len(comma_split_list) > 1 THEN ConvertAll(comma_split_list)
        ELSE Undelimited(prop)

\* the fields given to it: every text of up to MaxChars characters of the
\* alphabet, and three texts of the engine's notation
Alphabet == {"a", " ", "|", ",", "(", ")"}
PipeCommaText == <<"A", " ", "|", " ", "B", ",", "C">>
GroupsText == <<"(", "1", ",", "2", ")", " ", "(", "3", ",", "4", ")">>
AloneText == <<"a", "l", "o", "n", "e">>
NestedText == <<"(", "a", ",", "(", "b", ")", ")">>
Props ==
    SeqsUpTo(Alphabet, MaxChars)
        \cup {PipeCommaText, GroupsText, AloneText, NestedText}

InitConvert == SessionInit /\ rdRaw = <<>> /\ rdRes = NoRes
                   /\ psIn \in Props /\ psOut = <<>>

\* line 293 on one field
ConvertProp ==
    /\ psOut = <<>>
    /\ psOut' = detect_data_form_and_convert(psIn)
    /\ ParserFrame

NextConvert == ConvertProp

SpecConvert == InitConvert /\ [][NextConvert]_vars

-----------------------------------------------------------------------------
(* IsotropySession._parse_output (lines 290-296) *)

\* line 293 for a value of a merged record
ConvertValue(v) ==
    IF v.list THEN ConvertAll(v.items)
    ELSE detect_data_form_and_convert(v.items[1])

\* _parse_output: the exception raised ("ok": none) and parsed_output, each
\* record with its items in the order of insertion
_parse_output(lns) ==
    LET indexes == detect_column_indexes(lns)
        split_by_ind == [l \in DOMAIN lns |-> split_line_by_indexes(indexes, lns[l])]
        merged == detect_multirows_and_split(split_by_ind)
        parsed_output ==
            [r \in DOMAIN merged.list |->
                [k \in DOMAIN merged.list[r] |->
                    <<merged.list[r][k][1], ConvertValue(merged.list[r][k][2])>>]]
    IN  IF merged.exc # "ok" THEN [exc |-> merged.exc, list |-> <<>>]
        ELSE IF \E r \in DOMAIN parsed_output : \E k \in DOMAIN parsed_output[r] :
                    parsed_output[r][k][2] = IndexError
        THEN [exc |-> "IndexError", list |-> <<>>]
        ELSE [exc |-> "ok", list |-> parsed_output]

\* the lines of a response: a header of two labels, and rows under it
KVectorHeader ==
    <<"I", "r", "r", "e", "p", " ", " ", " ", "k", " ", "v", "e", "c",
      "t", "o", "r">>
PointRow ==
    <<"G", "M", "1", "+", " ", " ", " ", " ", "0", ",", "0", ",", "0">>
PipedRow ==
    <<"G", "M", "2", "-", " ", " ", " ", " ", "|", "x", ",", "0", ",",
      "0", "|", "x", ",", "y", ",", "0", "|">>
BetweenRow ==
    <<"G", "M", "2", "-", " ", " ", " ", " ", "x", ",", "0", ",", "0",
      "|", "x", ",", "y", ",", "0">>
MoreRow ==
    <<" ", " ", " ", " ", " ", " ", " ", " ", "1", ",", "1", ",", "1">>
ParenRow ==
    <<"G", "M", "3", "+", " ", " ", " ", " ", "(", ")">>
ParseRows == {PointRow, PipedRow, BetweenRow, MoreRow, ParenRow}
\* the block of no line at all, and the header with rows under it
Responses ==
    {<<>>} \cup {<<KVectorHeader>> \o r : r \in SeqsUpTo(ParseRows, MaxLines)}

InitParse == SessionInit /\ rdRaw = <<>> /\ rdRes = NoRes
                 /\ psIn \in Responses /\ psOut = <<>>

\* self._parse_output(lines)
ParseLines ==
    /\ psOut = <<>>
    /\ psOut' = <<_parse_output(psIn)>>
    /\ ParserFrame

NextParse == ParseLines

SpecParse == InitParse /\ [][NextParse]_vars

-----------------------------------------------------------------------------
(* The line reader alone *)

\* the failure messages, as the engine writes them and in other letter cases
MessageForms ==
    {BombedWords, <<"Program", "has", "bombed">>, <<"PROGRAM", "HAS", "BOMBED">>,
     BasisWords, <<"basis">> \o Tail(BasisWords),
     SubgroupWords, <<"Not">> \o Tail(SubgroupWords)}

\* lines with one message (its words a space or a tab apart, alone or inside
\* other text), lines with two, and lines with none
ReaderLines ==
    {pre \o Phrase(w, sep) \o post :
        pre \in {<<>>, <<"iso:", " ">>}, w \in MessageForms, sep \in {" ", "\t"},
        post \in {<<>>, <<" ", "!">>}}
    \cup {Phrase(v, " ") \o <<" ">> \o Phrase(w, " ") :
             v \in MessageForms, w \in MessageForms}
    \cup SessionLines

\* readline(): a line with its newline, or the rest of a stream that ends
\* without one
ReaderRaws == {l \o <<"\n">> : l \in ReaderLines} \cup ReaderLines

InitReader == SessionInit /\ rdRaw \in ReaderRaws /\ rdRes = NoRes /\ NoParse

ReadLine ==
    /\ rdRes = NoRes
    /\ rdRes' = read_iso_line(rdRaw)
    /\ UNCHANGED <<iso_process, rdRaw, psIn, psOut, other, pc, idx, op, outcome, vals, shows, setting,
                   argValues, argShows, argSetting, newVals, newShows,
                   hasSession, alive, files, written, log, lines, result,
                   lastLine, lastSig>>

NextReader == ReadLine

SpecReader == InitReader /\ [][NextReader]_vars

-----------------------------------------------------------------------------
(* The specifications *)

\* IsotropySession() with the defaults values=None, shows=None, setting=None
ConstructDefault == Construct(<<>>, <<>>, NoneArg)

\* the steps of __init__
StartStep(raw) ==
    \/ InitBanner(raw) /\ UNCHANGED iso_process
    \/ InitScreen(raw) /\ UNCHANGED iso_process
    \/ InitPage(raw) /\ UNCHANGED iso_process
    \/ InitSetting(raw) /\ UNCHANGED iso_process
    \/ InitValues(raw) /\ UNCHANGED iso_process
    \/ InitShows(raw) /\ UNCHANGED iso_process

\* the steps of getDisplayData
DisplayStep(raw) ==
    \/ \E display \in Displays : CallGetDisplayData(display, raw)
           /\ UNCHANGED iso_process
    \/ GdMain(raw) /\ UNCHANGED iso_process
    \/ GdDialog(raw) /\ UNCHANGED iso_process
    \/ GdAnswer(raw) /\ UNCHANGED iso_process
    \/ GdAck(raw) /\ UNCHANGED iso_process
    \/ GdScan(raw) /\ UNCHANGED iso_process

\* the calls on the mirror
MirrorStep(raw) ==
    \/ \E key \in RawKeys, value \in ValueTexts : CallSet(key, value, raw)
           /\ UNCHANGED iso_process
    \/ \E key \in RawKeys : CallDelete(key, raw) /\ UNCHANGED iso_process
    \/ CallClearValues(raw) /\ UNCHANGED iso_process
    \/ \E item \in RawKeys : CallAdd(item, raw) /\ UNCHANGED iso_process
    \/ \E item \in RawKeys : CallDiscard(item, raw) /\ UNCHANGED iso_process
    \/ CallClearShows(raw) /\ UNCHANGED iso_process

\* A session started with the defaults, and the calls on its mirror
NextMirror ==
    \/ ConstructDefault /\ UNCHANGED iso_process
    \/ \E raw \in SessionRaws : StartStep(raw)
    \/ \E raw \in SessionRaws : MirrorStep(raw)
    \/ EngineExits /\ UNCHANGED iso_process

SpecMirror == Init /\ [][NextMirror]_vars

\* A session started with the defaults, and its display requests
NextDisplay ==
    \/ ConstructDefault /\ UNCHANGED iso_process
    \/ \E raw \in SessionRaws : StartStep(raw)
    \/ \E raw \in SessionRaws : DisplayStep(raw)
    \/ \E raw \in SessionRaws : CallClose(raw) /\ UNCHANGED iso_process
    \/ EngineExits /\ UNCHANGED iso_process

SpecDisplay == Init /\ [][NextDisplay]_vars

\* Sessions started with any arguments, restarted and closed
NextLifecycle ==
    \/ \E args \in InitArgs, st \in SettingArgs :
           Construct(args[1], args[2], st) /\ UNCHANGED iso_process
    \/ \E raw \in SessionRaws : StartStep(raw)
    \/ \E raw \in SessionRaws, order \in Orderings(shows) :
           CallRestart(raw, order) /\ UNCHANGED iso_process
    \/ \E raw \in SessionRaws : CallClose(raw) /\ UNCHANGED iso_process
    \/ EngineExits /\ UNCHANGED iso_process
    \/ EngineCreatesFile /\ UNCHANGED iso_process

SpecLifecycle == Init /\ [][NextLifecycle]_vars

\* the steps inside getDisplayData
InsideDisplay(raw) ==
    \/ GdMain(raw) /\ UNCHANGED iso_process
    \/ GdDialog(raw) /\ UNCHANGED iso_process
    \/ GdAnswer(raw) /\ UNCHANGED iso_process
    \/ GdAck(raw) /\ UNCHANGED iso_process
    \/ GdScan(raw) /\ UNCHANGED iso_process

\* getPossibleIrrepComboOPs: a session, and for each combination a value, a
\* display request and, should the engine bomb, a restart and the request
\* again
NextCombo ==
    \/ ComboOpen /\ UNCHANGED iso_process
    \/ \E raw \in SessionRaws : StartStep(raw)
    \/ \E raw \in SessionRaws : ComboSet(raw) /\ UNCHANGED iso_process
    \/ \E raw \in SessionRaws : ComboTry(raw) /\ UNCHANGED iso_process
    \/ \E raw \in SessionRaws : InsideDisplay(raw)
    \/ \E raw \in SessionRaws, order \in Orderings(shows) :
           ComboRestart(raw, order) /\ UNCHANGED iso_process
    \/ \E raw \in SessionRaws : ComboRetry(raw) /\ UNCHANGED iso_process
    \/ \E raw \in SessionRaws : ComboExit(raw) /\ UNCHANGED iso_process
    \/ EngineExits /\ UNCHANGED iso_process
    \/ EngineCreatesFile /\ UNCHANGED iso_process

SpecCombo == Init /\ [][NextCombo]_vars

\* get_amps_direction with a session of its own
NextScope ==
    \/ AmpsOpen /\ UNCHANGED iso_process
    \/ \E raw \in SessionRaws : StartStep(raw)
    \/ \E raw \in SessionRaws : AmpsSetValues(raw) /\ UNCHANGED iso_process
    \/ \E raw \in SessionRaws : AmpsAddShows(raw) /\ UNCHANGED iso_process
    \/ \E raw \in SessionRaws : AmpsGetDisplayData(raw)
           /\ UNCHANGED iso_process
    \/ \E raw \in SessionRaws : InsideDisplay(raw)
    \/ \E raw \in SessionRaws : AmpsClearShows(raw) /\ UNCHANGED iso_process
    \/ \E raw \in SessionRaws : AmpsClearValues(raw) /\ UNCHANGED iso_process
    \/ \E raw \in SessionRaws : AmpsClose(raw) /\ UNCHANGED iso_process
    \/ AmpsRaise /\ UNCHANGED iso_process
    \/ EngineExits /\ UNCHANGED iso_process

SpecScope == Init /\ [][NextScope]_vars

\* two sessions in one working directory
NextTwo ==
    \/ ConstructDefault /\ UNCHANGED iso_process
    \/ \E raw \in SessionRaws : StartStep(raw)
    \/ \E raw \in SessionRaws, order \in Orderings(shows) :
           CallRestart(raw, order) /\ UNCHANGED iso_process
    \/ \E raw \in SessionRaws : CallClose(raw) /\ UNCHANGED iso_process
    \/ EngineExits /\ UNCHANGED iso_process
    \/ EngineCreatesFile /\ UNCHANGED iso_process
    \/ OtherOpens /\ UNCHANGED iso_process
    \/ OtherEngineCreatesFile /\ UNCHANGED iso_process
    \/ OtherCloses /\ UNCHANGED iso_process

SpecTwo == Init /\ [][NextTwo]_vars

\* The whole driver.  Its parts above are checked one by one: the mirror's
\* contents, the working directory and a display request's progress are
\* independent of each other.
Next == NextMirror \/ NextDisplay \/ NextLifecycle

Spec == Init /\ [][Next]_vars

-----------------------------------------------------------------------------
(* The driver with the engine at the other end of its pipes.  The engine is *)
(* not part of the repository: it is the one the specification describes,  *)
(* which answers each command with its output and one line "*" and then    *)
(* waits for the next command.                                             *)

MaxCommands == 6   \* commands the engine takes
MaxReply == 2      \* lines of output of one DISPLAY

VersionLine == <<"ISOTROPY">>
PromptRaw == PromptLine \o <<"\n">>

\* line i of the output of the command that is the engine's k-th
ReplyLine(k, i) == <<"row", " ", ToString(k), " ", ToString(i)>>

\* the lines of output of every command there may be
ReplyLines == {ReplyLine(k, i) : k \in 1..MaxCommands, i \in 1..MaxReply}

IsDisplayCmd(bytes) == Len(bytes) > 0 /\ bytes[1] = "DISPLAY"

\* what the engine may print for the command that is its k-th
Replies(bytes, k) ==
    IF IsDisplayCmd(bytes)
    THEN {[i \in 1..n |-> ReplyLine(k, i) \o <<"\n">>] \o <<PromptRaw>> :
             n \in 0..MaxReply}
    ELSE {<<PromptRaw>>}

\* the process is started (line 164): the engine will print its banner and
\* its first prompt
Spawn ==
    iso_process' = [stdout |-> <<>>,
                    todo |-> <<VersionLine \o <<"\n">>, BannerLine \o <<"\n">>,
                               PromptRaw>>,
                    received |-> 0]

\* the engine prints its next line
EngineWrites ==
    /\ iso_process.todo # <<>>
    /\ iso_process' = [iso_process EXCEPT
                          !.stdout = Append(@, Head(iso_process.todo)),
                          !.todo = Tail(@)]
    /\ UNCHANGED <<rdRaw, rdRes, psIn, psOut, other, pc, idx, op, outcome,
                   vals, shows, setting, argValues, argShows, argSetting,
                   newVals, newShows, hasSession, alive, files, written, log,
                   lines, result, lastLine, lastSig>>

\* a line of output is waiting to be read
Available == iso_process.stdout # <<>>

\* stdout.readline(): the next line of the output, or nothing when none has
\* come yet
Readline == IF Available THEN Head(iso_process.stdout) ELSE <<>>

\* the positions where the log and the written commands start anew
Fresh == pc \in {"none", "idle", "banner", "main"}

\* the step has read a line
Reads ==
    LET new == IF Fresh THEN log' ELSE SubSeq(log', Len(log) + 1, Len(log'))
    IN  \E i \in DOMAIN new : new[i].k = "read"

\* what the step has written to the engine
Sent ==
    IF pc \in {"none", "idle"} THEN written'
    ELSE SubSeq(written', Len(written) + 1, Len(written'))

\* the engine's side of a step of the driver: the line read has left the
\* output, and the engine will answer what was written
Piped ==
    LET k == iso_process.received
    IN  /\ k + Len(Sent) <= MaxCommands
        /\ \E reply \in (IF Sent = <<>> THEN {<<>>}
                         ELSE Replies(Sent[1], k + 1)) :
              iso_process' =
                  [stdout |-> IF Reads /\ Available
                              THEN Tail(iso_process.stdout)
                              ELSE iso_process.stdout,
                   todo |-> iso_process.todo \o reply,
                   received |-> k + Len(Sent)]

\* a step whose read waits until the engine has written a line
Blocking(Step(_)) == Step(Readline) /\ (Reads => Available) /\ Piped

\* a step whose read gives an empty line when the engine has written none
Polling(Step(_)) == Step(Readline) /\ Piped

SetAny(raw) == \E key \in RawKeys, value \in ValueTexts : CallSet(key, value, raw)
DeleteAny(raw) == \E key \in RawKeys : CallDelete(key, raw)
AddAny(raw) == \E item \in RawKeys : CallAdd(item, raw)
DiscardAny(raw) == \E item \in RawKeys : CallDiscard(item, raw)
DisplayAny(raw) == \E display \in Displays : CallGetDisplayData(display, raw)

\* a session, its mirror and its display requests, reading lines that block
NextBlocking ==
    \/ ConstructDefault /\ Spawn
    \/ Blocking(InitBanner)
    \/ Blocking(InitScreen)
    \/ Blocking(InitPage)
    \/ Blocking(InitSetting)
    \/ Blocking(InitValues)
    \/ Blocking(InitShows)
    \/ Blocking(SetAny)
    \/ Blocking(DeleteAny)
    \/ Blocking(CallClearValues)
    \/ Blocking(AddAny)
    \/ Blocking(DiscardAny)
    \/ Blocking(CallClearShows)
    \/ Blocking(DisplayAny)
    \/ Blocking(GdMain)
    \/ EngineWrites

SpecBlocking == Init /\ [][NextBlocking]_vars

\* the same with reads that do not wait
NextPolling ==
    \/ ConstructDefault /\ Spawn
    \/ Polling(InitBanner)
    \/ Polling(InitScreen)
    \/ Polling(InitPage)
    \/ Polling(InitSetting)
    \/ Polling(InitValues)
    \/ Polling(InitShows)
    \/ Polling(SetAny)
    \/ Polling(DeleteAny)
    \/ Polling(CallClearValues)
    \/ Polling(AddAny)
    \/ Polling(DiscardAny)
    \/ Polling(CallClearShows)
    \/ Polling(DisplayAny)
    \/ Polling(GdMain)
    \/ EngineWrites

SpecPolling == Init /\ [][NextPolling]_vars

-----------------------------------------------------------------------------
(* Properties of the mirror (SpecMirror) *)

\* the step is the call name(a, b) on a started session
IsCall(name, a, b) ==
    /\ pc = "idle"
    /\ alive' = alive
    /\ op' = [name |-> name, a |-> a, b |-> b]

\* C1: Shows.discard of a name that is not in the set raises nothing, writes
\* no command and leaves the set as it was; of a name that is in the set it
\* writes exactly one CANCEL SHOW NAME and removes the name.
C1_DiscardAbsentIsNoOp ==
    [][\A item \in RawKeys :
          IsCall("discard", item, <<>>) =>
              LET N == Upper(item)
              IN  IF N \notin shows
                  THEN outcome' = "ok" /\ written' = <<>> /\ shows' = shows
                  ELSE outcome' = "ok" =>
                          /\ written' = << <<"CANCEL", " ", "SHOW", " ">> \o N
                                             \o <<"\n">> >>
                          /\ shows' = shows \ {N}]_vars

\* a discard of a name that is not in the set has ended with KeyError
C1_DiscardAbsentRaised ==
    /\ op.name = "discard"
    /\ Upper(op.a) \notin shows
    /\ outcome = "KeyError"
    /\ written = <<>>

\* the key is in the dictionary
Stored(d, K) == \E i \in DOMAIN d : d[i][1] = K

\* the dictionary without the key
Without(d, K) == SelectSeq(d, LAMBDA p : p[1] # K)

C3_MirrorDeduplication ==
    [][/\ \A key \in RawKeys, value \in ValueTexts :
             IsCall("set", key, value) =>
                 LET K == Upper(key)
                     cmd == <<"VALUE", " ">> \o K \o <<" ">> \o value \o <<"\n">>
                     changes == \A i \in DOMAIN vals :
                                    vals[i][1] = K => vals[i][2] # value
                 IN  /\ written' \in {<<>>, <<cmd>>}
                     /\ (written' # <<>>) <=> (vals' # vals)
                     /\ outcome' = "ok" =>
                           /\ (written' = <<cmd>>) <=> changes
                           /\ \E i \in DOMAIN vals' : vals'[i] = <<K, value>>
                           /\ \A L \in {Upper(k) : k \in RawKeys} \ {K} :
                                 /\ Stored(vals', L) <=> Stored(vals, L)
                                 /\ \A i \in DOMAIN vals, j \in DOMAIN vals' :
                                       (vals[i][1] = L /\ vals'[j][1] = L)
                                           => vals'[j] = vals[i]
       /\ \A item \in RawKeys :
             IsCall("add", item, <<>>) =>
                 LET N == Upper(item)
                     cmd == <<"SHOW", " ">> \o N \o <<"\n">>
                 IN  /\ written' \in {<<>>, <<cmd>>}
                     /\ (written' # <<>>) <=> (shows' # shows)
                     /\ outcome' = "ok" =>
                           /\ (written' = <<cmd>>) <=> (N \notin shows)
                           /\ shows' = shows \cup {N}]_vars

\* a set of a key in lower case has found it set, in upper case, to the
\* same value and has written nothing
C3_SecondSetWroteNothing ==
    /\ op.name = "set" /\ op.a = <<"a">>
    /\ outcome = "ok"
    /\ written = <<>>
    /\ \E i \in DOMAIN vals : vals[i] = <<<<"A">>, op.b>>

-----------------------------------------------------------------------------
(* Properties of the line reader (SpecReader) *)

\* the words occur in the line in a row, one white-space character between two
Occurs(words, line) ==
    \E i \in 1..Len(line) :
        /\ i + 2 * Len(words) - 2 <= Len(line)
        /\ \A j \in 1..Len(words) : line[i + 2 * (j - 1)] = words[j]
        /\ \A j \in 1..(Len(words) - 1) : line[i + 2 * j - 1] \in Whitespace

\* the same, whatever the case of the letters
OccursAnyCase(words, line) == Occurs(Lower(words), Lower(line))

\* the raw line is the line and newlines after it, the line ending in none
StrippedOf(line, raw) ==
    /\ Len(line) <= Len(raw)
    /\ SubSeq(raw, 1, Len(line)) = line
    /\ \A i \in (Len(line) + 1)..Len(raw) : raw[i] = "\n"
    /\ (Len(line) > 0 => line[Len(line)] # "\n")

\* C4 as stated: the reader matches the line, whatever the case of its
\* letters, against "program has bombed", then "basis vectors are not a
\* right-handed set", then "not all elements of the subgroup are elements of
\* parent group", raises the exception of the first that occurs, and returns
\* a line in which none occurs with its newline stripped.
C4_ReaderAnyCase ==
    rdRes # NoRes =>
        /\ StrippedOf(rdRes.line, rdRaw)
        /\ rdRes.exc =
             IF OccursAnyCase(BombedWords, rdRes.line)
             THEN "IsotropyBombedException"
             ELSE IF OccursAnyCase(BasisWords, rdRes.line)
             THEN "IsotropyBasisException"
             ELSE IF OccursAnyCase(SubgroupWords, rdRes.line)
             THEN "IsotropySubgroupException"
             ELSE "ok"

\* C4, amended: the reader matches the line in the case of its letters
\* against "program has bombed", then "Basis vectors are not a right-handed
\* set", then "not all elements of the subgroup are elements of parent
\* group", the words of each one white-space character apart; it raises the
\* exception of the first that occurs, and returns a line in which none
\* occurs, be it one that differs from them in case only, with its newline
\* stripped.
C4_ReaderExactCase ==
    rdRes # NoRes =>
        /\ StrippedOf(rdRes.line, rdRaw)
        /\ rdRes.exc =
             IF Occurs(<<"program", "has", "bombed">>, rdRes.line)
             THEN "IsotropyBombedException"
             ELSE IF Occurs(<<"Basis", "vectors", "are", "not", "a",
                              "right-handed", "set">>, rdRes.line)
             THEN "IsotropyBasisException"
             ELSE IF Occurs(<<"not", "all", "elements", "of", "the", "subgroup",
                              "are", "elements", "of", "parent", "group">>,
                            rdRes.line)
             THEN "IsotropySubgroupException"
             ELSE "ok"

\* a line that says PROGRAM HAS BOMBED, or Program has bombed, was returned
\* as an ordinary line
C4_OtherCaseReturned ==
    /\ rdRes.exc = "ok"
    /\ OccursAnyCase(BombedWords, rdRes.line)
    /\ Len(rdRaw) = Len(rdRes.line) + 1

-----------------------------------------------------------------------------
(* Properties of the reads and writes of a session (SpecDisplay) *)

\* the text occurs in the line
Contains(text, line) ==
    \E i \in 1..(Len(line) + 1) :
        /\ i + Len(text) - 1 <= Len(line)
        /\ SubSeq(line, i, i + Len(text) - 1) = text

\* the line opens the sub-dialog about an irrep
OpensRequested(line) ==
    Contains(<<"You", " ", "have", " ", "requested", " ", "information", " ",
               "about", " ">>, line)

\* the line opens the sub-dialog about coupled subgroups
OpensCoupled(line) ==
    Contains(<<"Data", " ", "base", " ", "for", " ", "these", " ", "coupled",
               " ", "subgroups", " ">>, line)

\* C5: whichever read consumes a line with a failure message (of the banner
\* loop, of sendCommand, of the loop of getDisplayData or of its sub-dialogs),
\* the call ends there with the exception of that message: the step writes
\* nothing, getDisplayData does not go on and sends its command no second
\* time.
C5_EveryReadIsClassified ==
    [][(lastSig' \in EngineErrors /\ alive' = alive) =>
          /\ outcome' = lastSig'
          /\ pc' \in {"idle", "none"}
          /\ written' = IF pc = "idle" THEN <<>> ELSE written
          /\ Len(SelectSeq(written', LAMBDA w : w[1] = "DISPLAY")) <= 1]_vars

\* getDisplayData has ended with the exception of a failure message that
\* the scan of a sub-dialog read
C5_FailureInSubDialog ==
    /\ op.name = "display"
    /\ lastSig \in EngineErrors
    /\ outcome = lastSig
    /\ pc = "idle"
    /\ log # <<>> /\ log[Len(log)] = ReadEv("scan")

\* the step is sendCommand(cmd), of a call that starts with it (first) or in
\* the course of a call: it reads one line, the prompt; if that carries a
\* failure message it raises and writes nothing; else it writes cmd and a
\* newline and flushes, which raises BrokenPipeError if the engine has
\* exited; it reads nothing more.
SendsCommand(cmd, first) ==
    LET before == IF first THEN 0 ELSE Len(log)
        sent == IF first THEN 0 ELSE Len(written)
        ev == SubSeq(log', before + 1, Len(log'))
        wr == SubSeq(written', sent + 1, Len(written'))
        bytes == cmd \o <<"\n">>
    IN  /\ Len(log') >= before /\ SubSeq(log', 1, before) = SubSeq(log, 1, before)
        /\ Len(written') >= sent
        /\ SubSeq(written', 1, sent) = SubSeq(written, 1, sent)
        /\ IF lastSig' \in EngineErrors
           THEN /\ ev = << [k |-> "read", site |-> "prompt", text |-> <<>>] >>
                /\ wr = <<>>
                /\ outcome' = lastSig'
           ELSE IF alive
           THEN /\ ev = << [k |-> "read", site |-> "prompt", text |-> <<>>],
                           [k |-> "write", site |-> "stdin", text |-> bytes],
                           [k |-> "flush", site |-> "stdin", text |-> <<>>] >>
                /\ wr = <<bytes>>
                /\ outcome' \in {"running", "ok"}
           ELSE /\ ev = << [k |-> "read", site |-> "prompt", text |-> <<>>],
                           [k |-> "write", site |-> "stdin", text |-> bytes] >>
                /\ wr = <<>>
                /\ outcome' = "BrokenPipeError"

\* the step is the driver's, at the place p of a call
At(p) == pc = p /\ alive' = alive

\* C6: sendCommand(cmd) reads exactly one line, then writes cmd and a newline
\* and flushes, and reads nothing after the write; when the read raises an
\* engine failure, cmd is not written.  It holds of every sendCommand of a
\* session: SCREEN 999, PAGE 999, the SETTINGs, DISPLAY, the empty command
\* of a sub-dialog and QUIT.
C6_SendCommandReadsThenWrites ==
    [][/\ At("screen") => SendsCommand(<<"SCREEN", " ", "999">>, FALSE)
       /\ At("page") => SendsCommand(<<"PAGE", " ", "999">>, FALSE)
       /\ At("setting") =>
             SendsCommand(<<"SETTING", " ">> \o setting[idx], FALSE)
       /\ At("answer") => SendsCommand(<<>>, FALSE)
       /\ \A display \in Displays :
             IsCall("display", display, <<>>) =>
                 SendsCommand(<<"DISPLAY", " ">> \o display, TRUE)
       /\ IsCall("close", <<>>, <<>>) => SendsCommand(<<"QUIT">>, TRUE)]_vars

\* the sendCommand of a sub-dialog has read the prompt and written the
\* empty command
C6_EmptyCommandSent ==
    /\ pc = "ack"
    /\ Len(log) >= 3
    /\ SubSeq(log, Len(log) - 2, Len(log))
         = <<ReadEv("prompt"), WriteEv(<<"\n">>), FlushEv>>
    /\ written = <<DisplayCmd(op.a) \o <<"\n">>, <<"\n">>>>

\* C8: getDisplayData(display) writes one DISPLAY display, and no other
\* command but the empty ones of sub-dialogs; its loop reads until the first
\* line that is "*" or empty, returns then, and reads no more; the block it
\* returns is made of the lines the loop read before, as they were read and
\* in that order, but the lines of sub-dialogs (the line that opens one, the
\* lines dropped, the acknowledgement, the empty lines scanned), and of the
\* first line that is neither "*" nor empty of each scan.
C8_DisplayBlock ==
    [][/\ (op'.name = "display" /\ outcome' \in {"running", "ok"}) =>
             /\ written' # <<>>
             /\ written'[1] = <<"DISPLAY", " ">> \o op'.a \o <<"\n">>
             /\ \A i \in 2..Len(written') : written'[i] = <<"\n">>
       /\ \A display \in Displays :
             (IsCall("display", display, <<>>) /\ outcome' = "running") =>
                 pc' = "main" /\ lines' = <<>>
       /\ (At("main") /\ lastSig' \notin EngineErrors) =>
             IF lastLine' \in {<<"*">>, <<>>}
             THEN pc' = "idle" /\ outcome' = "ok" /\ result' = lines
             ELSE /\ outcome' = "running"
                  /\ IF OpensRequested(lastLine') \/ OpensCoupled(lastLine')
                     THEN pc' = "dialog" /\ lines' = lines
                     ELSE pc' = "main" /\ lines' = Append(lines, lastLine')
       /\ (pc \in {"dialog", "answer", "ack"} /\ outcome' = "running") =>
             lines' = lines
       /\ (At("scan") /\ outcome' = "running") =>
             lines' = IF lastLine' \in {<<"*">>, <<>>} THEN lines
                      ELSE Append(lines, lastLine')
       /\ (pc # "idle" /\ pc' = "idle" /\ op.name = "display"
             /\ outcome' = "ok") => pc = "main"]_vars

\* getDisplayData has returned two different lines, one read by its loop
\* and one found by the scan of a sub-dialog
C8_BlockReturned ==
    /\ op.name = "display"
    /\ pc = "idle" /\ outcome = "ok"
    /\ Len(result) = 2 /\ result[1] # result[2]
    /\ Answered = 1
    /\ lastLine \in {<<"*">>, <<>>}

\* what getDisplayData has done, when the scan of a sub-dialog starts, since
\* its loop read the line that opened it: n reads, the sendCommand of the
\* empty command, and one read
DialogLog(n) ==
    <<[k |-> "read", site |-> "main", text |-> log[1].text]>>
        \o [i \in 1..n |-> [k |-> "read", site |-> "dialog", text |-> <<>>]]
        \o << [k |-> "read", site |-> "prompt", text |-> <<>>],
              [k |-> "write", site |-> "stdin", text |-> <<"\n">>],
              [k |-> "flush", site |-> "stdin", text |-> <<>>],
              [k |-> "read", site |-> "ack", text |-> <<>>] >>

\* the lines of a sub-dialog, up to its scan, are not added to the block
DialogKeepsBlock ==
    [][/\ (pc = "main" /\ pc' = "dialog") => lines' = lines
       /\ (pc \in {"dialog", "answer", "ack"} /\ outcome' = "running") =>
             lines' = lines]_vars

\* C9 as stated: after either line that opens a sub-dialog, getDisplayData
\* reads two lines (one of information, one that asks for RETURN), sends the
\* empty command, reads one line of acknowledgement, and only then scans for
\* the first line of data; none of these lines is added to the block.
C9_TwoLinesDropped ==
    /\ [](pc = "scan" /\ idx = 0 =>
             /\ OpensRequested(log[1].text) \/ OpensCoupled(log[1].text)
             /\ log = DialogLog(2))
    /\ DialogKeepsBlock

\* C9, amended: after the line "You have requested information about ..."
\* getDisplayData reads four lines, after the line "Data base for these
\* coupled subgroups ..." it reads two; it then sends the empty command,
\* reads one line of acknowledgement, and only then scans for the first line
\* of data; none of these lines is added to the block.
C9_FourOrTwoLinesDropped ==
    /\ [](pc = "scan" /\ idx = 0 =>
             /\ OpensRequested(log[1].text) \/ OpensCoupled(log[1].text)
             /\ log = DialogLog(IF OpensRequested(log[1].text) THEN 4 ELSE 2))
    /\ DialogKeepsBlock

\* the scan of the sub-dialog about an irrep starts, a line being in the
\* block already
C9_RequestedDialogAnswered ==
    /\ pc = "scan" /\ idx = 0
    /\ OpensRequested(log[1].text)
    /\ Len(log) = 9
    /\ Len(lines) = 1

-----------------------------------------------------------------------------
(* Properties of the start and the restart of a session (SpecLifecycle) *)

IsPrefix(a, b) == Len(a) <= Len(b) /\ SubSeq(b, 1, Len(a)) = a

\* the elements of the sequence at the indexes of keep, up to n, in order
RECURSIVE Picked(_, _, _)
Picked(seq, keep, n) ==
    IF n = 0 THEN <<>>
    ELSE Picked(seq, keep, n - 1) \o (IF n \in keep THEN <<seq[n]>> ELSE <<>>)

\* the setting list of a session started with the argument
SettingList(arg) ==
    IF arg.type = "None" \/ arg.v = <<>> THEN << <<"INTERNATIONAL">> >> ELSE arg.v

SettingLines(l) == [i \in DOMAIN l |-> <<"SETTING", " ">> \o l[i] \o <<"\n">>]

ValueLines(values) ==
    [i \in DOMAIN values |->
        <<"VALUE", " ">> \o Upper(values[i][1]) \o <<" ">> \o values[i][2]
            \o <<"\n">>]

ShowLines(shs) == [i \in DOMAIN shs |-> <<"SHOW", " ">> \o Upper(shs[i]) \o <<"\n">>]

\* the initial values that change the mirror: those whose key, in upper
\* case, no value before had, or the last before had with another value
NewValues(values) ==
    {i \in DOMAIN values :
        LET same == {j \in 1..(i - 1) : Upper(values[j][1]) = Upper(values[i][1])}
        IN  \A j \in same :
                (\A h \in same : h <= j) => values[j][2] # values[i][2]}

\* the initial shows that no show before equals, in upper case
NewShows(shs) ==
    {i \in DOMAIN shs : \A j \in 1..(i - 1) : Upper(shs[j]) # Upper(shs[i])}

\* the commands of a start: SCREEN, PAGE, the SETTINGs, VALUEs and SHOWs
StartCommands(arg, values, shs, whichValues, whichShows) ==
    << <<"SCREEN", " ", "999", "\n">>, <<"PAGE", " ", "999", "\n">> >>
        \o SettingLines(SettingList(arg))
        \o Picked(ValueLines(values), whichValues, Len(values))
        \o Picked(ShowLines(shs), whichShows, Len(shs))

\* What a start writes, and when, given the VALUEs and SHOWs it is to write:
\* nothing before it has read the line that is the banner; at any time a
\* beginning of its commands; all of them when __init__ returns, and the
\* session has then the setting list of its argument.
StartWrites(whichValues(_), whichShows(_)) ==
    /\ pc' = "banner" => written' = <<>>
    /\ (pc = "banner" /\ pc' = "screen") =>
          lastLine' = <<"Current setting is International (new ed.) with conventional basis vectors.">>
    /\ (pc' \in {"banner", "screen", "page", "setting", "values", "shows"}) =>
          IsPrefix(written',
                   StartCommands(argSetting', argValues', argShows',
                                 whichValues(argValues'), whichShows(argShows')))
    /\ (pc = "shows" /\ pc' = "idle" /\ outcome' = "ok") =>
          /\ written' = StartCommands(argSetting, argValues, argShows,
                                      whichValues(argValues), whichShows(argShows))
          /\ setting' = SettingList(argSetting)
    /\ (~hasSession /\ hasSession') => (pc = "shows" /\ outcome' = "ok")

\* C7 as stated: a start writes no command before it has read a line equal
\* to the banner; then it writes SCREEN, PAGE, one SETTING for each entry of
\* the setting list (["INTERNATIONAL"] by default), one VALUE for each
\* initial value and one SHOW for each initial show, in this order; only
\* then is the session ready.
C7_OneCommandPerInitialItem ==
    [][StartWrites(LAMBDA values : DOMAIN values, LAMBDA shs : DOMAIN shs)]_vars

\* C7, amended: a start writes no command before it has read a line equal
\* to the banner; then it writes SCREEN, PAGE, one SETTING for each entry of
\* the setting list (["INTERNATIONAL"] by default), one VALUE for each
\* initial value that changes the mirror (its key, in upper case, is not set
\* yet or is set to another value) and one SHOW for each initial show that
\* is, in upper case, not in the set yet, in this order; only then is the
\* session ready.
C7_OneCommandPerMirrorChange ==
    [][StartWrites(NewValues, NewShows)]_vars

\* a start with two initial shows that are one name in upper case is about
\* to return, having written one SHOW
C7_DuplicateShowWrittenOnce ==
    /\ op.name = "init"
    /\ pc = "shows" /\ idx = 3
    /\ Len(argShows) = 2 /\ Upper(argShows[1]) = Upper(argShows[2])
    /\ written = << <<"SCREEN", " ", "999", "\n">>, <<"PAGE", " ", "999", "\n">>,
                    <<"SETTING", " ", "INTERNATIONAL", "\n">>,
                    <<"SHOW", " ">> \o Upper(argShows[1]) \o <<"\n">> >>

\* the step is a call of restart_session
RestartCalled ==
    /\ pc = "idle"
    /\ op'.name = "restart"
    /\ ~(alive /\ ~alive')
    /\ files' \subseteq files

\* the files whose name ends in .iso
IsoFiles(fs) == {f \in fs : f[Len(f)] = ".iso"}

\* C10: restart_session sends QUIT, a BrokenPipeError of that send being
\* ignored, kills the process, removes the files *.iso and runs __init__
\* again, unless the prompt read of the QUIT raises an engine failure, with
\* which it is left.  The values, the shows and the setting list are at
\* every step of it what they were before; and when it returns the new
\* process has been sent SCREEN, PAGE, one SETTING for each entry of the
\* setting list, one VALUE for each key of the values and one SHOW for each
\* of the shows, and nothing else.
C10_RestartReplaysMirror ==
    [][/\ op'.name = "restart" =>
             vals' = vals /\ shows' = shows /\ setting' = setting
       /\ RestartCalled =>
             IF lastSig' \in EngineErrors
             THEN outcome' = lastSig' /\ pc' = "idle" /\ files' = files
             ELSE LET quit == <<"QUIT", "\n">>
                      n == Cardinality(IsoFiles(files))
                      sent == IF alive THEN 3 ELSE 2
                  IN  /\ Len(log') = sent + n + 2
                      /\ log'[1] = [k |-> "read", site |-> "prompt", text |-> <<>>]
                      /\ log'[2] = [k |-> "write", site |-> "stdin", text |-> quit]
                      /\ alive => log'[3] = [k |-> "flush", site |-> "stdin",
                                             text |-> <<>>]
                      /\ log'[sent + 1] = [k |-> "kill", site |-> "iso", text |-> <<>>]
                      /\ {log'[i] : i \in (sent + 2)..(sent + n + 1)}
                           = {[k |-> "remove", site |-> "cwd", text |-> f] :
                                 f \in IsoFiles(files)}
                      /\ log'[sent + n + 2]
                           = [k |-> "spawn", site |-> "iso", text |-> <<>>]
                      /\ files' = files \ IsoFiles(files)
                      /\ alive' /\ written' = <<>>
                      /\ pc' = "banner" /\ outcome' = "running"
       /\ (op.name = "restart" /\ pc = "shows" /\ pc' = "idle" /\ outcome' = "ok") =>
             LET head == << <<"SCREEN", " ", "999", "\n">>,
                            <<"PAGE", " ", "999", "\n">> >>
                            \o SettingLines(setting)
                            \o [i \in DOMAIN vals |->
                                   <<"VALUE", " ">> \o vals[i][1] \o <<" ">>
                                       \o vals[i][2] \o <<"\n">>]
                 rest == SubSeq(written', Len(head) + 1, Len(written'))
             IN  /\ IsPrefix(head, written')
                 /\ Len(rest) = Cardinality(shows)
                 /\ {rest[i] : i \in DOMAIN rest}
                      = {<<"SHOW", " ">> \o N \o <<"\n">> : N \in shows}]_vars

\* a restart of a session with a value and a show, whose engine had left a
\* file, has returned
C10_RestartReturned ==
    /\ op.name = "restart"
    /\ pc = "idle" /\ outcome = "ok"
    /\ Len(vals) = 1 /\ Cardinality(shows) = 1
    /\ Len(written) = 5
    /\ files = {NotesFile}

-----------------------------------------------------------------------------
(* Properties of getPossibleIrrepComboOPs (SpecCombo) *)

\* the step is a call on the session
CallsNext == pc = "idle" /\ op' # op

\* the first getDisplayData of a combination has ended with the engine's
\* "program has bombed"
BombedInRequest ==
    /\ op.name = "display" /\ op.b = <<"try">>
    /\ outcome = "IsotropyBombedException"

\* the commands that tell a new engine the values and shows of the session,
\* each once
ReplayOf(d, s, w) ==
    LET head == << <<"SCREEN", " ", "999", "\n">>, <<"PAGE", " ", "999", "\n">> >>
                   \o SettingLines(setting)
                   \o [i \in DOMAIN d |->
                          <<"VALUE", " ">> \o d[i][1] \o <<" ">> \o d[i][2]
                              \o <<"\n">>]
        rest == SubSeq(w, Len(head) + 1, Len(w))
    IN  /\ IsPrefix(head, w)
        /\ Len(rest) = Cardinality(s)
        /\ {rest[i] : i \in DOMAIN rest} = {<<"SHOW", " ">> \o N \o <<"\n">> : N \in s}

-----------------------------------------------------------------------------
(* Properties of the scope of a session (SpecScope) *)

\* C12: whenever the scope of a session is left, by the return of its last
\* call or by an exception of a call, it is left through __exit__, which
\* writes QUIT to the engine.
C12_EveryExitCloses ==
    [][(pc = "idle" /\ pc' = "none") =>
          /\ op'.name = "close"
          /\ written' = << <<"QUIT", "\n">> >>]_vars

\* get_amps_direction has been left by an engine failure of one of its
\* calls; nothing was written after that call and the engine still runs
C12_LeftWithoutClose ==
    /\ op.name = "raise"
    /\ pc = "none"
    /\ outcome \in EngineErrors
    /\ alive
    /\ \A i \in DOMAIN written : written[i] # <<"QUIT", "\n">>

-----------------------------------------------------------------------------
(* Properties of close (SpecLifecycle) *)

\* __exit__ has returned, its QUIT written
Closed == op.name = "close" /\ pc = "none" /\ outcome = "ok"

\* C13: after close the engine process has been terminated and the files
\* *.iso of the working directory have been removed, as after a restart.
C13_CloseDestroysSession ==
    Closed => ~alive /\ IsoFiles(files) = {}

\* close has returned and the engine has ended, and the file *.iso that the
\* engine wrote while the session was open is still there
C13_ClosedWithScratchLeft ==
    /\ Closed
    /\ ~alive
    /\ ScratchFile \in files
    /\ written = << <<"QUIT", "\n">> >>

-----------------------------------------------------------------------------
(* The line reader at the end of the stream (SpecReader) *)

\* readline() returned nothing at all: the pipe is closed
PipeClosed == rdRaw = <<>>

\* C14: when the output pipe of the engine is closed, the line read raises
\* an EngineTerminated failure; it does not return as if an empty line had
\* been read.
C14_ClosedPipeRaises ==
    (PipeClosed /\ rdRes # NoRes) =>
        /\ rdRes.exc = "EngineTerminated"
        /\ rdRes # read_iso_line(<<"\n">>)

\* the read at the closed pipe has returned what the read of an empty line
\* returns
C14_ClosedPipeReadAsEmptyLine ==
    /\ PipeClosed
    /\ rdRes = [exc |-> "ok", line |-> <<>>]

-----------------------------------------------------------------------------
(* Two sessions in one working directory (SpecTwo) *)

\* C15: a restart of one session removes no file that the engine of another
\* live session has written, whatever the order of the two sessions' steps.
C15_RestartSparesOtherSession ==
    [][(RestartCalled /\ other' = other /\ other.live) =>
           other.files \subseteq files']_vars

\* the session has been restarted while the second session was live, and
\* the file the second session's engine wrote is gone
C15_OtherScratchRemoved ==
    /\ op.name = "restart"
    /\ other.live
    /\ OtherScratchFile \in other.files
    /\ OtherScratchFile \notin files

-----------------------------------------------------------------------------
(* Properties of clearAll (SpecMirror) *)

\* the call before this step was a clearAll that returned
Cleared(name) == op.name = name /\ outcome = "ok"

\* C16: Values.clearAll and Shows.clearAll write one command each, CANCEL
\* VALUE ALL and CANCEL SHOW ALL, however many entries the mirror holds, and
\* leave the mirror empty; the set of any key and the add of any name that
\* follows writes its command again.
C16_ClearAllOneCommand ==
    [][/\ IsCall("clearValues", <<>>, <<>>) =>
             LET cmd == <<"CANCEL", " ", "VALUE", " ", "ALL", "\n">>
             IN  /\ written' \in {<<>>, <<cmd>>}
                 /\ shows' = shows
                 /\ outcome' = "ok" => written' = <<cmd>> /\ vals' = <<>>
       /\ IsCall("clearShows", <<>>, <<>>) =>
             LET cmd == <<"CANCEL", " ", "SHOW", " ", "ALL", "\n">>
             IN  /\ written' \in {<<>>, <<cmd>>}
                 /\ vals' = vals
                 /\ outcome' = "ok" => written' = <<cmd>> /\ shows' = {}
       /\ \A key \in RawKeys, value \in ValueTexts :
             (Cleared("clearValues") /\ IsCall("set", key, value)
                 /\ outcome' = "ok") =>
                 written' = << <<"VALUE", " ">> \o Upper(key) \o <<" ">>
                                  \o value \o <<"\n">> >>
       /\ \A item \in RawKeys :
             (Cleared("clearShows") /\ IsCall("add", item, <<>>)
                 /\ outcome' = "ok") =>
                 written' = << <<"SHOW", " ">> \o Upper(item) \o <<"\n">> >>]_vars

\* clearAll of the values has returned, its one command written and the
\* dictionary empty, the shows still there
C16_ValuesCleared ==
    /\ Cleared("clearValues")
    /\ written = << <<"CANCEL", " ", "VALUE", " ", "ALL", "\n">> >>
    /\ vals = <<>>
    /\ Cardinality(shows) = 2

-----------------------------------------------------------------------------
(* Properties of the column boundaries (SpecColumns) *)

\* the character of a line at an offset, a space where the line has ended
CharAt(line, p) == IF p < Len(line) THEN line[p + 1] ELSE " "

\* the offsets of the header's labels
LabelStart(lay, c) ==
    IF c = 1 THEN lay.cells[1][1].indent
    ELSE Base2(lay) + lay.cells[1][2].indent

\* the header's first label starts the line, and its second label starts
\* no further right than any row's second field
LabelsAtLeftEdge(lay) ==
    /\ lay.cells[1][1].indent = 0
    /\ \A l \in DOMAIN lay.cells :
          lay.cells[l][2].text # <<>> =>
              lay.cells[1][2].indent <= lay.cells[l][2].indent

\* under every space inside a label of the header some row has a character
LabelGapsCovered(lay) ==
    \A c \in 1..2 :
       LET t == lay.cells[1][c].text
       IN  \A q \in DOMAIN t :
              t[q] = " " =>
                 \E l \in DOMAIN lay.cells :
                    CharAt(Render(lay, l), LabelStart(lay, c) + q - 1) # " "

\* the fields of the split lines are, trimmed, the fields of the block
Recovered(lay, split) ==
    \A l \in DOMAIN lay.cells :
       /\ Len(split[l]) = 2
       /\ \A c \in 1..2 : Strip(split[l][c]) = lay.cells[l][c].text

\* C17 as stated: for every block whose two columns have a blank gap between
\* them, the lines split at the boundaries found give, trimmed, the text of
\* every field, whatever the lengths of the lines and wherever the labels of
\* the header stand in their columns.
C17_BoundariesRecoverFields ==
    psOut # <<>> => Recovered(psIn, psOut[2])

\* C17, amended: the boundaries found are offset 0 and the offsets, short of
\* the end of the shortest line, at which a label of the header starts after
\* a column that is blank in every line.  So when the header's first label
\* starts the line, its second label starts no further right than the
\* second field of any row, and every space inside a label has a character
\* of some row under it, the boundaries are 0 and the offset of the second
\* label if every line is longer than that offset, and 0 alone if not; in
\* the first case the split lines give, trimmed, the text of every field.
C17_BoundariesAtHeaderLabels ==
    (psOut # <<>> /\ LabelsAtLeftEdge(psIn) /\ LabelGapsCovered(psIn)) =>
        IF LabelStart(psIn, 2) < ZipWidth(Block(psIn))
        THEN /\ psOut[1] = <<0, LabelStart(psIn, 2)>>
             /\ Recovered(psIn, psOut[2])
        ELSE psOut[1] = <<0>>

\* a block whose lines differ in length and whose header has a label with
\* a space in it has been split into its fields
C17_UnequalLinesRecovered ==
    /\ psOut # <<>>
    /\ LabelsAtLeftEdge(psIn) /\ LabelGapsCovered(psIn)
    /\ Len(Render(psIn, 1)) # Len(Render(psIn, 2))
    /\ psIn.cells[1][2].text = <<"a", " ", "b">>
    /\ psIn.cells[2][2].indent = 1
    /\ Len(psOut[1]) = 2
    /\ Recovered(psIn, psOut[2])

-----------------------------------------------------------------------------
(* Properties of the merge of continuation rows (SpecMerge) *)

\* the rows that start a record
Starters(b) == {i \in 2..Len(b) : b[i][1] # <<>>}

\* the number of continuation rows right under row i
Continued(b, i) ==
    Cardinality({m \in (i + 1)..Len(b) :
                    \A n \in (i + 1)..m : b[n][1] = <<>>})

\* the tokens these rows have in field c, from the top down
Contributed(b, i, c) ==
    LET NonEmpty(t) == t # <<>>
    IN  SelectSeq([k \in 1..Continued(b, i) |-> b[i + k][c]], NonEmpty)

\* the names of the header differ, and the first row starts a record
Mergeable(b) ==
    /\ \A c, d \in DOMAIN b[1] : c # d => b[1][c] # b[1][d]
    /\ Len(b) > 1 => 2 \in Starters(b)

\* the value of field c in the record that row i starts
MergedValue(b, out, i, c) ==
    GetItem(out.list[Cardinality({s \in Starters(b) : s <= i})], b[1][c])

\* C18 as stated: K continuation rows that each give one token to field F of
\* the record above them make F a list of exactly these K tokens, in the
\* order of the rows; the empty tokens of a continuation row change nothing.
C18_MergeGivesKElements ==
    (psOut # <<>> /\ Mergeable(psIn)) =>
        /\ psOut[1].exc = "ok"
        /\ Len(psOut[1].list) = Cardinality(Starters(psIn))
        /\ \A i \in Starters(psIn), c \in DOMAIN psIn[1] :
              LET T == Contributed(psIn, i, c)
              IN  MergedValue(psIn, psOut[1], i, c) =
                      IF T = <<>> THEN StrValue(psIn[i][c]) ELSE ListValue(T)

\* C18, amended: K continuation rows that each give one token to field F of
\* the record above them make F a list of K + 1 elements: the token the
\* record's own row has in F, empty or not, and then the K tokens in the
\* order of the rows.  The empty tokens of a continuation row change
\* nothing, and a field no continuation row gives a token to stays a string.
C18_MergeKeepsOwnToken ==
    (psOut # <<>> /\ Mergeable(psIn)) =>
        /\ psOut[1].exc = "ok"
        /\ Len(psOut[1].list) = Cardinality(Starters(psIn))
        /\ \A i \in Starters(psIn), c \in DOMAIN psIn[1] :
              LET T == Contributed(psIn, i, c)
              IN  MergedValue(psIn, psOut[1], i, c) =
                      IF T = <<>> THEN StrValue(psIn[i][c])
                      ELSE ListValue(<<psIn[i][c]>> \o T)

\* two continuation rows have given their tokens to field G of the record
\* above them, whose own row has a token there
C18_TwoRowsMerged ==
    /\ psIn = << << <<"F">>, <<"G">> >>, << <<"x">>, <<"x">> >>,
                 << <<>>, <<"y">> >>, << <<>>, <<"x">> >> >>
    /\ psOut # <<>>
    /\ psOut[1].exc = "ok"
    /\ Len(psOut[1].list) = 1
    /\ GetItem(psOut[1].list[1], <<"G">>) = ListValue(<< <<"x">>, <<"y">>, <<"x">> >>)
    /\ GetItem(psOut[1].list[1], <<"F">>) = StrValue(<<"x">>)

-----------------------------------------------------------------------------
(* Properties of the decomposition of a field (SpecConvert) *)

\* how many parentheses are open after the first i characters
Depth(s, i) ==
    Cardinality({k \in 1..i : s[k] = "("}) - Cardinality({k \in 1..i : s[k] = ")"})

\* every closing parenthesis closes one, and none is left open
Balanced(s) ==
    /\ \A i \in 1..Len(s) : Depth(s, i) >= 0
    /\ Depth(s, Len(s)) = 0

\* and none is opened inside another
Flat(s) == Balanced(s) /\ \A i \in 1..Len(s) : Depth(s, i) <= 1

\* the pieces between the delimiters that are inside no parentheses, the
\* white space after such a delimiter dropped
RECURSIVE OutsideSplitFrom(_, _, _, _)
OutsideSplitFrom(s, d, i, start) ==
    IF i > Len(s) THEN <<SubSeq(s, start, Len(s))>>
    ELSE IF s[i] = d /\ Depth(s, i) = 0
    THEN LET j == SkipSpace(s, i + 1)
         IN  <<SubSeq(s, start, i - 1)>> \o OutsideSplitFrom(s, d, j, j)
    ELSE OutsideSplitFrom(s, d, i + 1, start)

OutsideSplit(s, d) == OutsideSplitFrom(s, d, 1, 1)

\* what the precedence gives for a field: the pieces between its pipes if
\* it has a pipe outside parentheses, else those between its commas if it
\* has a comma outside parentheses, else what the parentheses and the white
\* space give
ByPrecedence(s) ==
    IF Len(OutsideSplit(s, "|")) > 1 THEN ConvertAll(OutsideSplit(s, "|"))
    ELSE IF Len(OutsideSplit(s, ",")) > 1 THEN ConvertAll(OutsideSplit(s, ","))
    ELSE Undelimited(s)

\* the three fields of the engine's notation give what is expected of them
NotationDecomposed ==
    /\ psIn = PipeCommaText =>
          psOut = ListOf(<<StrOf(<<"A">>),
                           ListOf(<<StrOf(<<"B">>), StrOf(<<"C">>)>>)>>)
    /\ psIn = GroupsText =>
          psOut = ListOf(<<ListOf(<<StrOf(<<"1">>), StrOf(<<"2">>)>>),
                           ListOf(<<StrOf(<<"3">>), StrOf(<<"4">>)>>)>>)
    /\ psIn = AloneText => psOut = StrOf(AloneText)

\* C19: a field is split at its pipes, else at its commas, else its
\* parentheses are taken off, else it is split at its white space; a pipe
\* or a comma inside parentheses splits nothing.  "A | B,C" gives
\* ["A", ["B", "C"]], "(1,2) (3,4)" gives [["1", "2"], ["3", "4"]] and
\* "alone" gives "alone".
C19_PrecedenceOutsideParens ==
    psOut # <<>> =>
        /\ NotationDecomposed
        /\ Balanced(psIn) => psOut = ByPrecedence(psIn)

\* the comma of "(a,(b))", which is inside the outer parentheses, has split
\* the field, into "(a" and "b"
C19_CommaInsideParensSplit ==
    /\ psIn = NestedText
    /\ OutsideSplit(psIn, ",") = <<psIn>>
    /\ psOut = ListOf(<<StrOf(<<"(", "a">>), StrOf(<<"b">>)>>)

-----------------------------------------------------------------------------
(* Properties of the parse of a response (SpecParse) *)

IrrepName == <<"I", "r", "r", "e", "p">>
KVectorName == <<"k", " ", "v", "e", "c", "t", "o", "r">>

\* the response of the scenario
ScenarioLines == <<KVectorHeader, PointRow, PipedRow>>

\* a list of one-character strings
Triple(a, b, c) == ListOf(<<StrOf(<<a>>), StrOf(<<b>>), StrOf(<<c>>)>>)

\* C20: the lines "Irrep   k vector", "GM1+    0,0,0" and
\* "GM2-    |x,0,0|x,y,0|" are parsed into two records and no more,
\* {Irrep: "GM1+", k vector: ["0", "0", "0"]} and
\* {Irrep: "GM2-", k vector: [["x", "0", "0"], ["x", "y", "0"]]}: the pipe
\* at the start and the pipe at the end of the field give no element.
C20_ScenarioRecords ==
    (psIn = ScenarioLines /\ psOut # <<>>) =>
        /\ psOut[1].exc = "ok"
        /\ psOut[1].list =
              << << <<IrrepName, StrOf(<<"G", "M", "1", "+">>)>>,
                    <<KVectorName, Triple("0", "0", "0")>> >>,
                 << <<IrrepName, StrOf(<<"G", "M", "2", "-">>)>>,
                    <<KVectorName, ListOf(<<Triple("x", "0", "0"),
                                            Triple("x", "y", "0")>>)>> >> >>

\* the scenario has been parsed, and the k vector of its second record has
\* an empty string before its two vectors and another after them
C20_EmptyStringsAroundVectors ==
    /\ psIn = ScenarioLines
    /\ psOut # <<>>
    /\ psOut[1].exc = "ok"
    /\ Len(psOut[1].list) = 2
    /\ psOut[1].list[1] = << <<IrrepName, StrOf(<<"G", "M", "1", "+">>)>>,
                             <<KVectorName, Triple("0", "0", "0")>> >>
    /\ psOut[1].list[2] =
          << <<IrrepName, StrOf(<<"G", "M", "2", "-">>)>>,
             <<KVectorName, ListOf(<<StrOf(<<>>), Triple("x", "0", "0"),
                                     Triple("x", "y", "0"), StrOf(<<>>)>>)>> >>

-----------------------------------------------------------------------------
(* Decomposing what has been decomposed (SpecConvert) *)

\* the strings of a returned value
Leaves(v) ==
    {SubSeq(v, i + 1, j - 1) :
        <<i, j>> \in {p \in (DOMAIN v) \X (DOMAIN v) :
                        /\ p[1] < p[2]
                        /\ v[p[1]] = StrOpen /\ v[p[2]] = StrClose
                        /\ \A k \in (p[1] + 1)..(p[2] - 1) : v[k] # StrClose}}

\* C21: decomposing a decomposed field changes nothing: every string that
\* detect_data_form_and_convert returns, alone or in a list, is returned
\* as it is when it is given to it again.
C21_LeavesDecomposeToThemselves ==
    (psOut # <<>> /\ psOut # IndexError) =>
        \A leaf \in Leaves(psOut) :
            detect_data_form_and_convert(leaf) = StrOf(leaf)

\* "(a) " has been returned as "(a)", with its parentheses, and "(a)" given
\* again loses them
C21_ParenthesesKeptOnce ==
    /\ psIn = <<"(", "a", ")", " ">>
    /\ psOut = StrOf(<<"(", "a", ")">>)
    /\ detect_data_form_and_convert(<<"(", "a", ")">>) = StrOf(<<"a">>)

-----------------------------------------------------------------------------
(* The scan after a sub-dialog (SpecDisplay) *)

\* the lines the scan has read
ScanReads == Len(SelectSeq(log, LAMBDA e : e.site = "scan"))

\* C22: after the acknowledgement of a sub-dialog getDisplayData reads at
\* most 10 lines more.  The first of them that is neither empty nor the
\* prompt is added to the block and ends the scan; when all 10 are empty or
\* the prompt, the scan ends and adds nothing.  Either way the loop of
\* getDisplayData goes on, and the call returns only when that loop reads
\* the prompt or an empty line.
C22_ScanOfTenLines ==
    /\ [](pc = "scan" => idx < 10 /\ ScanReads = idx)
    /\ [][/\ (At("scan") /\ outcome' = "running") =>
                IF lastLine' \notin {<<"*">>, <<>>}
                THEN lines' = Append(lines, lastLine') /\ pc' = "main"
                ELSE /\ lines' = lines
                     /\ IF idx = 9 THEN pc' = "main"
                        ELSE pc' = "scan" /\ idx' = idx + 1
          /\ At("scan") => outcome' # "ok"
          /\ (op.name = "display" /\ outcome = "running" /\ outcome' = "ok") =>
                pc = "main" /\ lastLine' \in {<<"*">>, <<>>}]_vars

\* the scan has read ten lines, every one empty or the prompt, and the loop
\* of getDisplayData goes on with the block as it was
C22_ScanFoundNothing ==
    /\ pc = "main" /\ outcome = "running"
    /\ ScanReads = 10
    /\ lastLine \in {<<"*">>, <<>>}
    /\ lines = <<>>

-----------------------------------------------------------------------------
(* Reads that block (SpecBlocking) *)

\* the engine has nothing to print and waits for a command
EngineWaits == iso_process.todo = <<>>

\* C23: with reads that block and an engine that prints one "*" after each
\* command, no call waits for ever: whenever the session is between two
\* calls, or inside the loop of getDisplayData, the line its next read
\* takes has been printed or will be.
C23_NextReadFindsALine ==
    (hasSession /\ pc \in {"idle", "main"}) => (Available \/ ~EngineWaits)

\* getDisplayData has returned after the "*" that ended the output, and the
\* engine waits for a command with nothing left to read
C23_PromptConsumedByDisplay ==
    /\ op.name = "display" /\ outcome = "ok" /\ pc = "idle"
    /\ lastLine = PromptLine
    /\ ~Available /\ EngineWaits
    /\ ~ENABLED Blocking(SetAny)

-----------------------------------------------------------------------------
(* Reads that do not wait (SpecPolling) *)

\* the step is one of the driver that took the first line of the output
TookLine ==
    /\ Available
    /\ Reads
    /\ iso_process'.stdout = Tail(iso_process.stdout)

\* the line is one of the output of the engine's k-th command
ReplyTo(line, k) == \E i \in 1..MaxReply : line = ReplyLine(k, i)

\* C24: when reads give an empty line while the engine has printed nothing
\* yet, every line getDisplayData returns is one the engine printed for the
\* DISPLAY command of that call, and the line sendCommand reads before it
\* writes is never a line of output.
C24_ResponseIntegrity ==
    [][/\ (op.name = "display" /\ outcome = "running" /\ outcome' = "ok") =>
              \A i \in DOMAIN result' :
                  ReplyTo(result'[i], iso_process.received)
       /\ (TookLine /\ pc \notin {"banner", "main"}) =>
              RStripNewline(Readline) \notin ReplyLines]_vars

\* getDisplayData has returned a line the engine printed for an earlier
\* command
C24_EarlierReplyReturned ==
    /\ op.name = "display" /\ outcome = "ok" /\ pc = "idle"
    /\ \E i \in DOMAIN result, k \in 1..MaxCommands :
          k < iso_process.received /\ ReplyTo(result[i], k)

-----------------------------------------------------------------------------
(* The mirror and the commands written (SpecMirror) *)

Names == {Upper(k) : k \in RawKeys}

\* the set of shows the engine holds after the command, having held s
ShowsAfter(s, bytes) ==
    IF bytes = CancelShowAllCmd \o <<"\n">> THEN {}
    ELSE IF \E n \in Names : bytes = ShowCmd(n) \o <<"\n">>
    THEN s \cup {n \in Names : bytes = ShowCmd(n) \o <<"\n">>}
    ELSE s \ {n \in Names : bytes = CancelShowCmd(n) \o <<"\n">>}

\* the values the engine holds after the command, having held d
ValuesAfter(d, bytes) ==
    IF bytes = CancelValueAllCmd \o <<"\n">> THEN <<>>
    ELSE IF \E n \in Names : bytes = CancelValueCmd(n) \o <<"\n">>
    THEN DelItem(d, CHOOSE n \in Names : bytes = CancelValueCmd(n) \o <<"\n">>)
    ELSE IF \E n \in Names, v \in ValueTexts : bytes = ValueCmd(n, v) \o <<"\n">>
    THEN LET p == CHOOSE p \in Names \X ValueTexts :
                      bytes = ValueCmd(p[1], p[2]) \o <<"\n">>
         IN  PutItem(d, p[1], p[2])
    ELSE d

\* the step is a call on the mirror of a started session
MirrorCalled ==
    /\ pc = "idle"
    /\ alive' = alive
    /\ op'.name \in {"set", "delete", "clearValues", "add", "discard",
                     "clearShows"}

\* C25: a call on the mirror, failed or not, changes the mirror as the
\* commands it has written change the engine's state and in no other way:
\* a name leaves the set only with a CANCEL SHOW written, a key maps to a
\* value only with its VALUE written, and a call that wrote nothing leaves
\* the mirror as it was.
C25_MirrorFollowsWritten ==
    [][MirrorCalled =>
          /\ Len(written') <= 1
          /\ shows' = (IF written' = <<>> THEN shows
                       ELSE ShowsAfter(shows, written'[1]))
          /\ vals' = (IF written' = <<>> THEN vals
                      ELSE ValuesAfter(vals, written'[1]))]_vars

\* a discard whose prompt read raised: nothing was written, and the name
\* has left the set
C25_DiscardedWithoutCommand ==
    /\ op.name = "discard"
    /\ outcome \in EngineErrors
    /\ written = <<>>
    /\ Upper(op.a) \notin shows

\* C26: a __delitem__ that ends with KeyError has done nothing: it has
\* written no command, read no line, and the dictionary is as it was.
C26_FailedDeleteDoesNothing ==
    [][\A key \in RawKeys :
          (IsCall("delete", key, <<>>) /\ outcome' = "KeyError") =>
              /\ written' = <<>>
              /\ \A i \in DOMAIN log' : log'[i].k # "read"
              /\ vals' = vals]_vars

\* a __delitem__ of a key that is not set has ended with KeyError after it
\* read the prompt line and wrote its CANCEL VALUE
C26_FailedDeleteWroteCancel ==
    /\ op.name = "delete"
    /\ outcome = "KeyError"
    /\ ~Stored(vals, Upper(op.a))
    /\ written = <<CancelValueCmd(Upper(op.a)) \o <<"\n">> >>
    /\ log[1] = ReadEv("prompt")

-----------------------------------------------------------------------------
(* A restart after an engine failure (SpecCombo) *)

KillEv == Ev("kill", "iso", <<>>)
SpawnEv == Ev("spawn", "iso", <<>>)

\* C27: a restart_session called after a call has ended with an engine
\* failure does not fail before it has killed the old process and started
\* a new one, whatever line the old engine has left to read and whether it
\* still runs or not.
C27_RestartReachesNewProcess ==
    [][(RestartCalled /\ outcome \in EngineErrors) =>
          /\ outcome' = "running" /\ pc' = "banner"
          /\ alive'
          /\ \E i, j \in DOMAIN log' :
                i < j /\ log'[i] = KillEv /\ log'[j] = SpawnEv]_vars

\* the restart after a failure has itself ended with an engine failure, on
\* the line its QUIT read first: nothing was written, no process killed and
\* none started
C27_RestartLeftByPendingFailure ==
    /\ op.name = "restart"
    /\ pc = "idle"
    /\ outcome \in EngineErrors
    /\ lastSig = outcome
    /\ log = <<ReadEv("prompt")>>
    /\ written = <<>>

-----------------------------------------------------------------------------
(* The parser on any block (SpecParse) *)

\* C28: _parse_output raises nothing, whatever the block: the empty block,
\* a header alone, a first row that continues a record there is none of, a
\* cell "()"; and it returns no record for the empty block and for a header
\* alone.
C28_ParserRaisesNothing ==
    psOut # <<>> =>
        /\ psOut[1].exc = "ok"
        /\ Len(psIn) <= 1 => psOut[1].list = <<>>

\* the first row under the header has an empty first field and a token in
\* the second: the parser has raised UnboundLocalError
C28_FirstRowContinuesNothing ==
    /\ psIn = <<KVectorHeader, MoreRow>>
    /\ psOut = <<[exc |-> "UnboundLocalError", list |-> <<>>]>>

====
